---- MODULE Spec2Model ----
(***************************************************************************)
(* Encrypted events demo (Oasis Sapphire): the contracts EncryptedEvents   *)
(* and EncryptedEventsECDH, and the off-chain emit / listen / decrypt      *)
(* tasks in all the generations the repository holds.                      *)
(*                                                                         *)
(* Byte strings are sequences of naturals.  Hex strings are modelled by    *)
(* the bytes they denote, except contract addresses, whose letter case is  *)
(* kept because the code compares them after toLowerCase().                *)
(*                                                                         *)
(* The cryptographic primitives are external libraries; they are modelled  *)
(* symbolically (no collisions, no forgeries):                             *)
(*   - Deoxys-II: a ciphertext records the key, the 15-byte nonce, the     *)
(*     AAD and the plaintext it was sealed with, and opens only under the  *)
(*     same three;                                                         *)
(*   - X25519: exponentiation in a small prime-order-ish group;            *)
(*   - HMAC / HKDF: injective taggings whose output symbols lie outside    *)
(*     the byte range, so a digest never equals a raw byte string.         *)
(***************************************************************************)
EXTENDS Integers, Sequences, FiniteSets, TLC

VARIABLES
    contractSk,   \* EncryptedEventsECDH._contractSk (scalar)
    contractPk,   \* EncryptedEventsECDH._contractPk (32 bytes)
    chain,        \* mined transactions: <<[from, logs]>>
    session,      \* number of task invocations started so far
    args,         \* the task parameters of the running invocation
    pc,           \* position of the task's action
    material,     \* emit: the key material fixed before the call
    receipt,      \* decrypt: logs of the fetched receipt
    matches,      \* decrypt: parsed Encrypted logs that passed the filter
    sessionKey,   \* listen / decrypt: the AEAD key of the session
    listeners,    \* listen: TRUE while the event listener is attached
    sigint,       \* listen: "default", "handler" (process.on registered), "received"
    delivered,    \* listen: events the provider pushed, in arrival order
    handlers,     \* listen: per delivered event, the stage of its handler
    calls,        \* remote requests issued by the invocation, in order
    out,          \* console output of the invocation, in order
    err,          \* the error the action threw ("none" when none)
    exitCode      \* process exit status (-1 while running)

vars == <<contractSk, contractPk, chain, session, args, pc, material, receipt,
          matches, sessionKey, listeners, sigint, delivered, handlers, calls,
          out, err, exitCode>>

-----------------------------------------------------------------------------
(* Bounds of the model *)

MaxMsgLen == 2        \* code points per message
MaxNonceByte == 1     \* nonce bytes range over 0..MaxNonceByte
MaxKeyByte == 1       \* pre-shared key bytes range over 0..MaxKeyByte
MaxScalar == 2        \* X25519 secrets range over 1..MaxScalar
MaxLogs == 2          \* logs per foreign transaction
MaxEvents == 2        \* events delivered to one subscription

(* Program constants *)

KeySize == 32             \* @oasisprotocol/deoxysii KeySize
NonceSize == 15           \* @oasisprotocol/deoxysii NonceSize
NONCE_SIZE_BYTES == 32    \* contract constant
AddressSize == 20         \* abi.encodePacked(address)
WordSize == 32            \* solidityPacked uint256
ChainId == 23293          \* 0x5afd, sapphire-localnet

-----------------------------------------------------------------------------
(* Byte strings *)

Fill(n, b) == [i \in 1..n |-> b]

RECURSIVE Pow(_, _)
Pow(b, e) == IF e = 0 THEN 1 ELSE b * Pow(b, e - 1)

\* Uint8Array.slice(from0, to0): zero-based, end exclusive
Slice(s, from0, to0) ==
    SubSeq(s, from0 + 1, IF to0 < Len(s) THEN to0 ELSE Len(s))

-----------------------------------------------------------------------------
(* UTF-8: ethers.toUtf8Bytes and new TextDecoder().decode *)

CpP == 112               \* "p", one byte in UTF-8
CpBOM == 65279           \* U+FEFF, three bytes in UTF-8
CpReplacement == 65533   \* U+FFFD

Alphabet == {CpP, CpBOM}

Utf8EncodeCp(cp) ==
    IF cp < 128 THEN <<cp>>
    ELSE IF cp < 2048 THEN <<192 + (cp \div 64), 128 + (cp % 64)>>
    ELSE <<224 + (cp \div 4096), 128 + ((cp \div 64) % 64), 128 + (cp % 64)>>

RECURSIVE toUtf8Bytes(_)
toUtf8Bytes(str) ==
    IF str = <<>> THEN <<>>
    ELSE Utf8EncodeCp(Head(str)) \o toUtf8Bytes(Tail(str))

IsCont(b) == b >= 128 /\ b < 192

\* the decoder proper: malformed input yields U+FFFD (fatal is off)
RECURSIVE Utf8Decode(_)
Utf8Decode(b) ==
    IF b = <<>> THEN <<>>
    ELSE IF b[1] < 128 THEN <<b[1]>> \o Utf8Decode(Tail(b))
    ELSE IF b[1] >= 194 /\ b[1] < 224 /\ Len(b) >= 2 /\ IsCont(b[2])
        THEN <<(b[1] - 192) * 64 + (b[2] - 128)>> \o Utf8Decode(SubSeq(b, 3, Len(b)))
    ELSE IF b[1] >= 224 /\ b[1] < 240 /\ Len(b) >= 3 /\ IsCont(b[2]) /\ IsCont(b[3])
        THEN <<(b[1] - 224) * 4096 + (b[2] - 128) * 64 + (b[3] - 128)>>
             \o Utf8Decode(SubSeq(b, 4, Len(b)))
    ELSE <<CpReplacement>> \o Utf8Decode(Tail(b))

\* new TextDecoder() has ignoreBOM = false: a leading U+FEFF is dropped
TextDecoderDecode(b) ==
    LET s == Utf8Decode(b)
    IN  IF s # <<>> /\ s[1] = CpBOM THEN Tail(s) ELSE s

RECURSIVE StringsUpTo(_)
StringsUpTo(n) ==
    IF n = 0 THEN {<<>>}
    ELSE LET shorter == StringsUpTo(n - 1)
         IN  shorter \cup {Append(s, c) : s \in shorter, c \in Alphabet}

Messages == StringsUpTo(MaxMsgLen)

-----------------------------------------------------------------------------
(* Addresses.  An address string keeps its letter case: "mixed" is the     *)
(* EIP-55 checksum spelling ethers returns, not mixed the all-lowercase    *)
(* spelling.                                                               *)

AddrIds == {"EncryptedEvents", "EncryptedEventsECDH", "Other", "Signer", "Relayer"}

AddrByte(id) ==
    CASE id = "EncryptedEvents" -> 1
      [] id = "EncryptedEventsECDH" -> 2
      [] id = "Other" -> 3
      [] id = "Signer" -> 4
      [] id = "Relayer" -> 5
      [] OTHER -> 0

NoAddr == [id |-> "", mixed |-> FALSE]
Checksum(id) == [id |-> id, mixed |-> TRUE]
toLowerCase(a) == [a EXCEPT !.mixed = FALSE]

\* ethers.getBytes of a 20-byte address string
AddressBytes(id) == Fill(AddressSize, AddrByte(id))

\* big-endian uint256 of a value below 2^24
Uint256BE(x) ==
    [i \in 1..WordSize |->
        IF i <= WordSize - 3 THEN 0 ELSE (x \div Pow(256, WordSize - i)) % 256]

\* ethers.solidityPacked(["uint256", "address"], [chainId, contractAddr])
solidityPacked(chainId, addr) == Uint256BE(chainId) \o AddressBytes(addr.id)

-----------------------------------------------------------------------------
(* Deoxys-II (Sapphire.encrypt on-chain, AEAD.decrypt off-chain) *)

Nonces ==
    {Fill(NonceSize, a) \o Fill(NONCE_SIZE_BYTES - NonceSize, b) :
        a \in 0..MaxNonceByte, b \in 0..MaxNonceByte}

\* Sapphire.encrypt(key, nonce, plaintext, aad): Deoxys-II under the first
\* NonceSize bytes of the bytes32 nonce
SapphireEncrypt(key, nonce, plaintext, aad) ==
    [k |-> key, n |-> SubSeq(nonce, 1, NonceSize), a |-> aad, p |-> plaintext]

NoCipher == [k |-> <<>>, n |-> <<>>, a |-> <<>>, p |-> <<>>]

\* a cipher that does not authenticate the associated data
AEADDecryptAnyAad(key, nonce, ciphertext, aad) ==
    IF /\ Len(key) = KeySize
       /\ ciphertext # NoCipher
       /\ ciphertext.k = key
       /\ ciphertext.n = nonce
    THEN [ok |-> TRUE, p |-> ciphertext.p]
    ELSE [ok |-> FALSE, p |-> <<>>]

\* AEAD.decrypt(nonce, ciphertext, aad) of new AEAD(key): the plaintext, or
\* a throw when the tag does not verify
AEADDecrypt(key, nonce, ciphertext, aad) ==
    IF /\ Len(key) = KeySize
       /\ ciphertext # NoCipher
       /\ ciphertext.k = key
       /\ ciphertext.n = nonce
       /\ ciphertext.a = aad
    THEN [ok |-> TRUE, p |-> ciphertext.p]
    ELSE [ok |-> FALSE, p |-> <<>>]

\* new AEAD(key): the error the constructor throws ("none" when it builds)
newAEAD(key) == IF Len(key) # KeySize THEN "deoxysii: invalid key size" ELSE "none"

PresharedKeys == {Fill(KeySize, b) : b \in 0..MaxKeyByte}

\* a --key one byte short of KeySize
ShortKey == Fill(KeySize - 1, 0)

\* what --key can hold: absent, a 32-byte key, a key of another length
KeyInputs == PresharedKeys \cup {<<>>, ShortKey}

-----------------------------------------------------------------------------
(* X25519 and the labeled key derivation *)

X25519Group == [p |-> 11, g |-> 2]

Scalars == 1..MaxScalar

\* little-endian 32-byte encoding of a small value, and back
LE32(v) == [i \in 1..KeySize |-> IF i = 1 THEN v ELSE 0]
FromLE32(b) == b[1]

Secrets == {LE32(s) : s \in Scalars}

\* a --secret one byte short of 32
ShortSecret == Fill(KeySize - 1, 1)

\* what --secret can hold: absent, a 32-byte secret, one of another length
SecretInputs == Secrets \cup {<<>>, ShortSecret}

\* x25519.getPublicKey(secret)
getPublicKey(secret) ==
    LE32(Pow(X25519Group.g, FromLE32(secret)) % X25519Group.p)

\* x25519.scalarMult(secret, public)
scalarMult(secret, public) ==
    LE32(Pow(FromLE32(public), FromLE32(secret)) % X25519Group.p)

\* nacl.scalarMult(n, p), which mraeDeoxysii.deriveSymmetricKey starts with:
\* the error of its size checks ("none" when both have 32 bytes)
scalarMultSizeError(secret, public) ==
    IF Len(secret) # KeySize THEN "bad n size"
    ELSE IF Len(public) # KeySize THEN "bad p size"
    ELSE "none"

MraeLabel == 1      \* "MRAE_Box_Deoxys-II-256-128"

\* hmac(sha512_256, label, message): 32 digest symbols
hmac(label, message) ==
    [i \in 1..KeySize |-> 256 * label + (IF i <= Len(message) THEN message[i] ELSE 0)]

deriveSapphireSymmetricKeyFromShared(shared) == hmac(MraeLabel, shared)

\* mraeDeoxysii.deriveSymmetricKey(publicKey, secretKey) off-chain and
\* Sapphire.deriveSymmetricKey(publicKey, secretKey) on-chain
deriveSymmetricKey(public, secret) ==
    deriveSapphireSymmetricKeyFromShared(scalarMult(secret, public))

HkdfInfo == 4       \* "sapphire:events"

\* hkdfSync("sha256", ikm, salt, "sapphire:events", 32)
hkdfSync(ikm, salt) ==
    [i \in 1..KeySize |->
        1024 * (HkdfInfo + (IF i <= Len(salt) THEN salt[i] ELSE 0)) + ikm[i]]

-----------------------------------------------------------------------------
(* The contracts *)

SigSender == "Encrypted(address,bytes32,bytes)"
SigLegacy == "Encrypted(bytes32,bytes)"
SigOther == "Transfer(address,address,uint256)"

EventLog(address, sig, sender, nonce, ciphertext) ==
    [address |-> Checksum(address), sig |-> sig, sender |-> sender,
     nonce |-> nonce, ct |-> ciphertext]

\* EncryptedEvents.emitEncrypted
emitEncrypted(msgSender, key, message, nonce) ==
    EventLog("EncryptedEvents", SigSender, msgSender, nonce,
             SapphireEncrypt(key, nonce, message, <<>>))

\* a contract that binds the origin of the transaction, the signer, and not
\* its caller
emitEncryptedWithAadOrigin(msgSender, key, message, nonce) ==
    EventLog("EncryptedEvents", SigSender, msgSender, nonce,
             SapphireEncrypt(key, nonce, message, AddressBytes("Signer")))

\* EncryptedEvents.emitEncryptedWithAad
emitEncryptedWithAad(msgSender, key, message, nonce) ==
    EventLog("EncryptedEvents", SigSender, msgSender, nonce,
             SapphireEncrypt(key, nonce, message, AddressBytes(msgSender)))

\* EncryptedEventsECDH.emitEncryptedECDH
emitEncryptedECDH(msgSender, callerPublicKey, message, nonce) ==
    LET key == deriveSymmetricKey(callerPublicKey, LE32(contractSk))
    IN  EventLog("EncryptedEventsECDH", SigSender, msgSender, nonce,
                 SapphireEncrypt(key, nonce, message, <<>>))

\* EncryptedEventsECDH.emitEncryptedECDHWithAad
emitEncryptedECDHWithAad(msgSender, callerPublicKey, message, nonce) ==
    LET key == deriveSymmetricKey(callerPublicKey, LE32(contractSk))
    IN  EventLog("EncryptedEventsECDH", SigSender, msgSender, nonce,
                 SapphireEncrypt(key, nonce, message, AddressBytes(msgSender)))

\* EncryptedEventsECDH.contractPublicKey
contractPublicKey == contractPk

-----------------------------------------------------------------------------
(* Task invocations.  impl names the generation of the task:               *)
(*   "enc"   the unified enc task, latest version                          *)
(*   "enc1"  the unified enc task, earlier version (tasks/enc.ts)          *)
(*   "task"  the stand-alone tasks (decrypt.ts, listen.ts, listen-ecdh     *)
(*           with the labeled KDF)                                         *)
(*   "task0" the first stand-alone listeners (no SIGINT handler)           *)

NoArgs ==
    [action |-> "none", impl |-> "none", mode |-> "none", contract |-> NoAddr,
     message |-> <<>>, key |-> <<>>, secret |-> <<>>, tx |-> 0,
     aadmode |-> "none", hkdf |-> FALSE]

Line(tag, text) == [tag |-> tag, text |-> text]
Call(op, params) == [op |-> op, params |-> params]

Init ==
    /\ contractSk \in Scalars
    /\ contractPk = getPublicKey(LE32(contractSk))
    /\ chain = <<>>
    /\ session = 0
    /\ args = NoArgs
    /\ pc = "idle"
    /\ material = <<>>
    /\ receipt = <<>>
    /\ matches = <<>>
    /\ sessionKey = <<>>
    /\ listeners = FALSE
    /\ sigint = "default"
    /\ delivered = <<>>
    /\ handlers = <<>>
    /\ calls = <<>>
    /\ out = <<>>
    /\ err = "none"
    /\ exitCode = -1

Terminal == pc \in {"idle", "done", "failed", "exited", "killed"}

\* a fresh process: nothing of the previous invocation survives but the chain
Spawn(a, first) ==
    /\ Terminal
    /\ session' = session + 1
    /\ args' = a
    /\ pc' = first
    /\ material' = <<>>
    /\ receipt' = <<>>
    /\ matches' = <<>>
    /\ sessionKey' = <<>>
    /\ listeners' = FALSE
    /\ sigint' = "default"
    /\ delivered' = <<>>
    /\ handlers' = <<>>
    /\ calls' = <<>>
    /\ out' = <<>>
    /\ err' = "none"
    /\ exitCode' = -1
    /\ UNCHANGED <<contractSk, contractPk, chain>>

\* the action rejects: the task fails with the thrown error
Throw(e) ==
    /\ err' = e
    /\ pc' = "failed"
    /\ exitCode' = 1

\* the aadmode after the legacy alias: --aad with aadmode none means sender
EffectiveAadMode(aad, aadmode) ==
    IF aad /\ aadmode = "none" THEN "sender" ELSE aadmode

AadModes == {"none", "sender", "context"}

ContractOf(mode) == IF mode = "key" THEN "EncryptedEvents" ELSE "EncryptedEventsECDH"

-----------------------------------------------------------------------------
(* getAadBytes and deriveEcdhKey, the helpers of the enc task *)

Aad(ok, bytes, e) == [ok |-> ok, bytes |-> bytes, err |-> e]

getAadBytes(aadmode, senderFromEvent, contractAddr) ==
    IF aadmode = "sender"
    THEN IF senderFromEvent = ""
         THEN Aad(FALSE, <<>>, "Internal: sender missing from event for aadmode=sender")
         ELSE Aad(TRUE, AddressBytes(senderFromEvent), "none")
    ELSE IF aadmode = "context"
    THEN Aad(TRUE, solidityPacked(ChainId, contractAddr), "none")
    ELSE Aad(TRUE, <<>>, "none")

\* the remote requests getAadBytes makes
AadCalls(aadmode, senderFromEvent) ==
    IF aadmode = "context" THEN <<Call("getNetwork", <<>>)>> ELSE <<>>

\* deriveEcdhKey: fetches the public key of the contract at the address; only
\* EncryptedEventsECDH has one
HasPublicKey(addr) == addr.id = "EncryptedEventsECDH"

\* the raw X25519 output in place of the labeled derivation
deriveEcdhKeyRaw(ecdhContractAddr, callerSecret) ==
    scalarMult(callerSecret, contractPublicKey)

deriveEcdhKey(ecdhContractAddr, callerSecret) ==
    deriveSymmetricKey(contractPublicKey, callerSecret)

-----------------------------------------------------------------------------
(* EMIT (enc task) *)

EmitArgs ==
    {[NoArgs EXCEPT !.action = "emit", !.impl = "enc", !.mode = m,
                    !.contract = Checksum(ContractOf(m)), !.message = msg,
                    !.key = k, !.secret = sec, !.aadmode = am, !.hkdf = FALSE] :
        m \in {"key", "ecdh"}, msg \in Messages, am \in AadModes,
        k \in KeyInputs, sec \in SecretInputs}

\* only the key material of the chosen mode is given on the command line
EmitInputs ==
    {a \in EmitArgs : IF a.mode = "key" THEN a.secret = <<>> ELSE a.key = <<>>}

StartEmit ==
    /\ pc = "idle"
    /\ \E a \in EmitInputs : Spawn(a, "emit_resolve")

\* key ?? randomBytes(32); secret ? getBytes(secret) : randomBytes(32)
EmitResolve ==
    /\ pc = "emit_resolve"
    /\ IF args.mode = "key"
       THEN /\ \E k \in (IF args.key # <<>> THEN {args.key} ELSE PresharedKeys) :
                 material' = k
            /\ pc' = "emit_call"
            /\ UNCHANGED <<err, exitCode>>
       ELSE \E sec \in (IF args.secret # <<>> THEN {args.secret} ELSE Secrets) :
              IF Len(sec) # KeySize
              THEN Throw("Caller secret must be 32 bytes") /\ UNCHANGED material
              ELSE /\ material' = sec
                   /\ pc' = "emit_call"
                   /\ UNCHANGED <<err, exitCode>>
    /\ UNCHANGED <<contractSk, contractPk, chain, session, args, receipt, matches,
                   sessionKey, listeners, sigint, delivered, handlers, calls, out>>

\* the contract function the emit calls for the AAD mode ("" when the
\* contract has no such function)
EmitFunction(mode, aadmode) ==
    IF mode = "key"
    THEN CASE aadmode = "sender" -> "emitEncryptedWithAad"
           [] aadmode = "context" -> ""
           [] OTHER -> "emitEncrypted"
    ELSE CASE aadmode = "sender" -> "emitEncryptedECDHWithAad"
           [] aadmode = "context" -> ""
           [] OTHER -> "emitEncryptedECDH"

\* the log the called contract function emits
EmittedLog(fn, msgSender, keyArg, data, nonce) ==
    CASE fn = "emitEncrypted" -> emitEncrypted(msgSender, keyArg, data, nonce)
      [] fn = "emitEncryptedWithAad" -> emitEncryptedWithAad(msgSender, keyArg, data, nonce)
      [] fn = "emitEncryptedECDH" -> emitEncryptedECDH(msgSender, keyArg, data, nonce)
      [] OTHER -> emitEncryptedECDHWithAad(msgSender, keyArg, data, nonce)

\* the ABI coder on a bytes32 argument: a value of another length is
\* rejected before the transaction is built
Bytes32Error(value) == IF Len(value) # WordSize THEN "incorrect data length" ELSE "none"

\* an emit that sends the caller's secret itself
EmitKeyArgSecret(mode, keyMaterial) == keyMaterial

\* what the emit sends as first argument: the key, or the caller's public key
EmitKeyArg(mode, keyMaterial) ==
    IF mode = "key" THEN keyMaterial ELSE getPublicKey(keyMaterial)

EmitCall ==
    /\ pc = "emit_call"
    /\ LET fn == EmitFunction(args.mode, args.aadmode)
           data == toUtf8Bytes(args.message)
           keyArg == EmitKeyArg(args.mode, material)
       IN  IF fn = ""
           THEN /\ Throw("TypeError: not a function")
                /\ UNCHANGED <<chain, calls>>
           ELSE IF args.mode = "key" /\ Bytes32Error(keyArg) # "none"
           THEN /\ Throw(Bytes32Error(keyArg))
                /\ UNCHANGED <<chain, calls>>
           ELSE \E nonce \in Nonces :
                  /\ chain' = Append(chain,
                        [from |-> "Signer",
                         logs |-> <<EmittedLog(fn, "Signer", keyArg, data, nonce)>>])
                  /\ calls' = Append(calls, Call(fn, <<keyArg, data>>))
                  /\ pc' = "emit_wait"
                  /\ UNCHANGED <<err, exitCode>>
    /\ UNCHANGED <<contractSk, contractPk, session, args, material, receipt, matches,
                   sessionKey, listeners, sigint, delivered, handlers, out>>

\* an emit that prints the secret ahead of the warning about it
EmitPrintSecretFirst ==
    /\ pc = "emit_wait"
    /\ out' = out
         \o <<Line("Encrypted event emitted in tx:", <<Len(chain)>>)>>
         \o (IF args.mode = "key"
             THEN <<Line("Symmetric key (hex):", material)>>
             ELSE <<Line("Caller Curve25519 SECRET key (hex):", material),
                    Line("Caller Curve25519 public key (hex):", getPublicKey(material)),
                    Line("DEMO ONLY: Do not log secret keys in production!", <<>>)>>)
         \o (IF args.aadmode # "none" THEN <<Line("AAD mode used:", <<>>)>> ELSE <<>>)
    /\ pc' = "done"
    /\ exitCode' = 0
    /\ UNCHANGED <<contractSk, contractPk, chain, session, args, material, receipt,
                   matches, sessionKey, listeners, sigint, delivered, handlers,
                   calls, err>>

\* after txr.wait(): the transaction, the key material, the AAD mode
EmitPrint ==
    /\ pc = "emit_wait"
    /\ out' = out
         \o <<Line("Encrypted event emitted in tx:", <<Len(chain)>>)>>
         \o (IF args.mode = "key"
             THEN <<Line("Symmetric key (hex):", material)>>
             ELSE <<Line("Caller Curve25519 public key (hex):", getPublicKey(material)),
                    Line("DEMO ONLY: Do not log secret keys in production!", <<>>),
                    Line("Caller Curve25519 SECRET key (hex):", material)>>)
         \o (IF args.aadmode # "none" THEN <<Line("AAD mode used:", <<>>)>> ELSE <<>>)
    /\ pc' = "done"
    /\ exitCode' = 0
    /\ UNCHANGED <<contractSk, contractPk, chain, session, args, material, receipt,
                   matches, sessionKey, listeners, sigint, delivered, handlers,
                   calls, err>>

-----------------------------------------------------------------------------
(* DECRYPT (enc task, its earlier version, and the decrypt task) *)

AuthFailure == "deoxysii: message authentication failed"

\* the event signature the implementation's interface decodes: the enc task
\* declares the sender-indexed shape; the decrypt task reads args[0] as the
\* nonce and args[1] as the ciphertext, the shape without a sender
IfaceOf(impl) == IF impl = "task" THEN SigLegacy ELSE SigSender

\* iface.parseLog(l) yields an Encrypted event
ParsesAsEncrypted(impl, l) == l.sig = IfaceOf(impl)

\* const target = contract ? contract.toLowerCase() : undefined
TargetOf(a) ==
    IF a.impl # "task" /\ a.contract # NoAddr THEN toLowerCase(a.contract) ELSE NoAddr

\* a scan that decodes without looking at the log's address
PassesFilterAnyAddress(a, l) ==
    ParsesAsEncrypted(a.impl, l)

\* the filter of the scan loop: address first, then the decoding
PassesFilter(a, l) ==
    /\ TargetOf(a) = NoAddr \/ toLowerCase(l.address) = TargetOf(a)
    /\ ParsesAsEncrypted(a.impl, l)

Match(l) == [parsed |-> l, address |-> toLowerCase(l.address)]

RECURSIVE ScanAll(_, _)
ScanAll(a, logs) ==
    IF logs = <<>> THEN <<>>
    ELSE (IF PassesFilter(a, Head(logs)) THEN <<Match(Head(logs))>> ELSE <<>>)
         \o ScanAll(a, Tail(logs))

\* the first-match loop of the earlier versions: parsed = p; break
ScanFirst(a, logs) ==
    LET all == ScanAll(a, logs) IN IF all = <<>> THEN <<>> ELSE <<Head(all)>>

ScanLogs(a, logs) ==
    IF a.impl = "enc" THEN ScanAll(a, logs) ELSE ScanFirst(a, logs)

\* a scan for which several matches are an error with a target as well
ScanErrorAnyTarget(a, found) ==
    IF found = <<>>
    THEN IF a.impl = "task" THEN "Encrypted event not found"
         ELSE IF TargetOf(a) # NoAddr
         THEN "Encrypted event not found for the provided contract in this transaction"
         ELSE "Encrypted event not found in tx logs"
    ELSE IF a.impl = "enc" /\ Len(found) > 1
         THEN "Ambiguous: multiple Encrypted events"
         ELSE "none"

\* the error the scan ends in ("none" when an event is chosen)
ScanError(a, found) ==
    IF found = <<>>
    THEN IF a.impl = "task" THEN "Encrypted event not found"
         ELSE IF TargetOf(a) # NoAddr
         THEN "Encrypted event not found for the provided contract in this transaction"
         ELSE "Encrypted event not found in tx logs"
    ELSE IF a.impl = "enc" /\ TargetOf(a) = NoAddr /\ Len(found) > 1
         THEN "Ambiguous: multiple Encrypted events"
         ELSE "none"

Outcome(e, key, lines, cs) == [err |-> e, key |-> key, lines |-> lines, calls |-> cs]

\* aead.decrypt(getBytes(nonce).slice(0, NonceSize), getBytes(ciphertext), aad)
\* and the print of the decoded plaintext
OpenAndPrint(tag, key, nonce, ciphertext, aad, cs, warn) ==
    LET r == AEADDecrypt(key, Slice(nonce, 0, NonceSize), ciphertext, aad)
    IN  IF newAEAD(key) # "none" THEN Outcome(newAEAD(key), <<>>, warn, cs)
        ELSE IF ~r.ok THEN Outcome(AuthFailure, key, warn, cs)
        ELSE Outcome("none", key, warn \o <<Line(tag, TextDecoderDecode(r.p))>>, cs)

\* the address the enc task hands to getAadBytes and deriveEcdhKey
TargetAddr(a, chosen) == IF a.contract # NoAddr THEN a.contract ELSE chosen.address

\* enc task, key mode
EncDecryptKey(a, chosen) ==
    LET ev == chosen.parsed
        aad == getAadBytes(a.aadmode, IF a.aadmode = "sender" THEN ev.sender ELSE "",
                           TargetAddr(a, chosen))
        warn == IF a.hkdf THEN <<Line("--hkdf is ignored in key mode.", <<>>)>> ELSE <<>>
        cs == AadCalls(a.aadmode, ev.sender)
    IN  IF a.key = <<>> THEN Outcome("--key is required in key mode for decrypt", <<>>, <<>>, <<>>)
        ELSE IF newAEAD(a.key) # "none" THEN Outcome(newAEAD(a.key), <<>>, warn, <<>>)
        ELSE IF ~aad.ok THEN Outcome(aad.err, a.key, warn, cs)
        ELSE OpenAndPrint("Decrypted message:", a.key, ev.nonce, ev.ct, aad.bytes, cs, warn)

\* enc task, ecdh mode
EncDecryptEcdh(a, chosen) ==
    LET ev == chosen.parsed
        targetAddr == TargetAddr(a, chosen)
        pkCall == <<Call("contractPublicKey", <<AddressBytes(targetAddr.id)>>)>>
        baseKey == deriveEcdhKey(targetAddr, a.secret)
        aad == getAadBytes(a.aadmode, IF a.aadmode = "sender" THEN ev.sender ELSE "",
                           targetAddr)
        cs == pkCall \o AadCalls(a.aadmode, ev.sender)
        n15 == Slice(ev.nonce, 0, NonceSize)
        key == IF a.hkdf THEN hkdfSync(baseKey, n15) ELSE baseKey
    IN  IF a.secret = <<>>
        THEN Outcome("--secret is required in ecdh mode for decrypt", <<>>, <<>>, <<>>)
        ELSE IF ~HasPublicKey(targetAddr)
        THEN Outcome("contractPublicKey: call failed", <<>>, <<>>, pkCall)
        ELSE IF scalarMultSizeError(a.secret, contractPublicKey) # "none"
        THEN Outcome(scalarMultSizeError(a.secret, contractPublicKey), <<>>, <<>>, pkCall)
        ELSE IF ~aad.ok THEN Outcome(aad.err, baseKey, <<>>, cs)
        ELSE OpenAndPrint("Decrypted message (ECDH):", key, ev.nonce, ev.ct, aad.bytes,
                          cs, <<>>)

\* earlier enc task: aad ? getBytes(sender) : empty
Enc1Aad(a, ev) == IF a.aadmode = "sender" THEN AddressBytes(ev.sender) ELSE <<>>

Enc1DecryptKey(a, chosen) ==
    LET ev == chosen.parsed
    IN  IF a.key = <<>> THEN Outcome("--key is required in key mode for decrypt", <<>>, <<>>, <<>>)
        ELSE OpenAndPrint("Decrypted message:", a.key, ev.nonce, ev.ct, Enc1Aad(a, ev),
                          <<>>, <<>>)

Enc1DecryptEcdh(a, chosen) ==
    LET ev == chosen.parsed
        pkCall == <<Call("contractPublicKey", <<AddressBytes(a.contract.id)>>)>>
        key == deriveSymmetricKey(contractPublicKey, a.secret)
    IN  IF a.secret = <<>>
        THEN Outcome("--secret is required in ecdh mode for decrypt", <<>>, <<>>, <<>>)
        ELSE IF ~HasPublicKey(a.contract)
        THEN Outcome("contractPublicKey: call failed", <<>>, <<>>, pkCall)
        ELSE IF scalarMultSizeError(a.secret, contractPublicKey) # "none"
        THEN Outcome(scalarMultSizeError(a.secret, contractPublicKey), <<>>, <<>>, pkCall)
        ELSE OpenAndPrint("Decrypted message (ECDH):", key, ev.nonce, ev.ct,
                          Enc1Aad(a, ev), pkCall, <<>>)

\* decrypt task: aad ? getBytes(tx.from) : empty
TaskDecrypt(a, chosen, txFrom) ==
    LET ev == chosen.parsed
        aad == IF a.aadmode = "sender" THEN AddressBytes(txFrom) ELSE <<>>
        cs == IF a.aadmode = "sender" THEN <<Call("getTransaction", <<>>)>> ELSE <<>>
        warn == IF a.aadmode = "sender"
                THEN <<Line("AAD mode expects abi.encodePacked(msg.sender).", <<>>),
                       Line("If a relayer/forwarder/another contract called the emitter, decryption will fail.", <<>>),
                       Line("Consider context-bound AAD or emitting an explicit sender address.", <<>>)>>
                ELSE <<>>
    IN  OpenAndPrint("Decrypted message:", a.key, ev.nonce, ev.ct, aad, cs, warn)

DecryptChosen(a, chosen, txFrom) ==
    CASE a.impl = "enc" /\ a.mode = "key" -> EncDecryptKey(a, chosen)
      [] a.impl = "enc" /\ a.mode = "ecdh" -> EncDecryptEcdh(a, chosen)
      [] a.impl = "enc1" /\ a.mode = "key" -> Enc1DecryptKey(a, chosen)
      [] a.impl = "enc1" /\ a.mode = "ecdh" -> Enc1DecryptEcdh(a, chosen)
      [] OTHER -> TaskDecrypt(a, chosen, txFrom)

DecryptArgs ==
    {[NoArgs EXCEPT !.action = "decrypt", !.impl = i, !.mode = m, !.contract = c,
                    !.key = k, !.secret = sec, !.tx = 1, !.aadmode = am, !.hkdf = h] :
        i \in {"enc", "enc1", "task"}, m \in {"key", "ecdh"},
        c \in {NoAddr} \cup {Checksum(x) : x \in {"EncryptedEvents", "EncryptedEventsECDH"}}
              \cup {toLowerCase(Checksum(x)) : x \in {"EncryptedEvents", "EncryptedEventsECDH"}},
        k \in KeyInputs, sec \in SecretInputs,
        am \in AadModes, h \in BOOLEAN}

\* the parameters each implementation has: the earlier versions know no
\* context AAD and no --hkdf; the decrypt task has --tx, --key and --aad only
DecryptInputs ==
    {a \in DecryptArgs :
        /\ IF a.mode = "key" THEN a.secret = <<>> ELSE a.key = <<>>
        /\ a.mode = "key" => ~a.hkdf
        /\ a.impl # "enc" => a.aadmode # "context" /\ ~a.hkdf
        /\ a.impl = "task" => a.mode = "key" /\ a.contract = NoAddr /\ a.key # <<>>}

StartDecrypt(inputs) ==
    /\ chain # <<>>
    /\ \E a \in inputs : Spawn(a, "dec_fetch")

\* parameter validation, then getTransactionReceipt(tx)
DecFetch ==
    /\ pc = "dec_fetch"
    /\ IF args.impl # "task" /\ args.mode = "ecdh" /\ args.contract = NoAddr
       THEN /\ Throw("--contract is required for decrypt in ecdh mode")
            /\ UNCHANGED <<receipt, calls>>
       ELSE /\ calls' = Append(calls, Call("getTransactionReceipt", <<>>))
            /\ IF args.tx \in 1..Len(chain)
               THEN /\ receipt' = chain[args.tx].logs
                    /\ pc' = "dec_scan"
                    /\ UNCHANGED <<err, exitCode>>
               ELSE /\ Throw("Transaction not found or not mined")
                    /\ UNCHANGED receipt
    /\ UNCHANGED <<contractSk, contractPk, chain, session, args, material, matches,
                   sessionKey, listeners, sigint, delivered, handlers, out>>

\* the scan of receipt.logs and the choice of the event
DecScan ==
    /\ pc = "dec_scan"
    /\ LET found == ScanLogs(args, receipt)
           e == ScanError(args, found)
       IN  /\ matches' = found
           /\ IF e = "none"
              THEN pc' = "dec_open" /\ UNCHANGED <<err, exitCode, out>>
              ELSE /\ Throw(e)
                   /\ out' = IF e = "Ambiguous: multiple Encrypted events"
                             THEN Append(out, Line("Warning: Multiple Encrypted events found", <<>>))
                             ELSE out
    /\ UNCHANGED <<contractSk, contractPk, chain, session, args, material, receipt,
                   sessionKey, listeners, sigint, delivered, handlers, calls>>

\* key, AAD, decryption and print of the chosen event
DecOpen ==
    /\ pc = "dec_open"
    /\ LET res == DecryptChosen(args, matches[1], chain[args.tx].from)
       IN  /\ out' = out \o res.lines
           /\ calls' = calls \o res.calls
           /\ sessionKey' = res.key
           /\ IF res.err = "none"
              THEN pc' = "done" /\ exitCode' = 0 /\ UNCHANGED err
              ELSE Throw(res.err)
    /\ UNCHANGED <<contractSk, contractPk, chain, session, args, material, receipt,
                   matches, listeners, sigint, delivered, handlers>>

-----------------------------------------------------------------------------
(* Emit, then decrypt the emitted transaction with the enc task *)

RoundTripInputs ==
    {a \in DecryptInputs :
        /\ a.impl = "enc"
        /\ a.contract \in {NoAddr, Checksum(ContractOf(a.mode))}
        /\ a.key # <<>> \/ a.secret # <<>>}

StartDecryptEmitted ==
    /\ pc = "done"
    /\ args.action = "emit"
    /\ StartDecrypt(RoundTripInputs)

NextRoundTrip ==
    \/ StartEmit
    \/ EmitResolve
    \/ EmitCall
    \/ EmitPrint
    \/ StartDecryptEmitted
    \/ DecFetch
    \/ DecScan
    \/ DecOpen

SpecRoundTrip == Init /\ [][NextRoundTrip]_vars

-----------------------------------------------------------------------------
(* Transactions of other emitters.  An address given to the tasks may hold *)
(* any contract that emits Encrypted-shaped logs, so a log may be sealed   *)
(* under any key, nonce and AAD.                                           *)

EnvMessage == <<CpP, CpBOM>>

\* the key an emitter holds: a pre-shared one, or the one the ECDH contract
\* derives with the caller whose secret is the first scalar
EnvKeys == {Fill(KeySize, 0), deriveSymmetricKey(getPublicKey(LE32(1)), LE32(contractSk))}

EnvAad(kind, msgSender, address) ==
    CASE kind = "sender" -> AddressBytes(msgSender)
      [] kind = "context" -> solidityPacked(ChainId, Checksum(address))
      [] OTHER -> <<>>

\* logs that differ in emitter and shape; the plaintext names the emitter
ShapeLogs ==
    {EventLog(addr, sig, IF sig = SigSender THEN "Signer" ELSE "",
              Fill(NONCE_SIZE_BYTES, 0),
              IF sig = SigOther THEN NoCipher
              ELSE SapphireEncrypt(
                     IF addr = "EncryptedEventsECDH"
                     THEN deriveSymmetricKey(getPublicKey(LE32(1)), LE32(contractSk))
                     ELSE Fill(KeySize, 0),
                     Fill(NONCE_SIZE_BYTES, 0), Fill(AddrByte(addr), CpP), <<>>)) :
        addr \in {"EncryptedEvents", "EncryptedEventsECDH", "Other"},
        sig \in {SigSender, SigLegacy, SigOther}}

\* logs of the targeted contract that differ in how they were sealed: key,
\* AAD, emitting caller, and the nonce the cipher ran under against the
\* nonce the log shows
SealedLogs ==
    {EventLog(IF k = Fill(KeySize, 0) THEN "EncryptedEvents" ELSE "EncryptedEventsECDH",
              sig, IF sig = SigSender THEN msgSender ELSE "", shown,
              SapphireEncrypt(k, used, toUtf8Bytes(EnvMessage),
                              EnvAad(kind, msgSender,
                                     IF k = Fill(KeySize, 0) THEN "EncryptedEvents"
                                     ELSE "EncryptedEventsECDH"))) :
        k \in EnvKeys, sig \in {SigSender, SigLegacy}, msgSender \in {"Signer", "Relayer"},
        shown \in Nonces,
        used \in {Fill(NONCE_SIZE_BYTES, a) : a \in 0..MaxNonceByte},
        kind \in AadModes}

\* ciphertext bytes altered after sealing: no key, nonce or AAD opens them
Corrupt(ciphertext) == [ciphertext EXCEPT !.k = <<>>]

\* logs whose ciphertext was altered; all else as the emitter sealed it
\* without AAD for the first caller
TamperedLogs ==
    {[l EXCEPT !.ct = Corrupt(l.ct)] :
        l \in {x \in SealedLogs : /\ x.ct.a = <<>>
                                 /\ x.nonce = Fill(NONCE_SIZE_BYTES, 0)
                                 /\ x.ct.n = Fill(NonceSize, 0)
                                 /\ x.sender \in {"Signer", ""}}}

RECURSIVE SeqsUpTo(_, _)
SeqsUpTo(S, n) ==
    IF n = 0 THEN {<<>>}
    ELSE LET shorter == SeqsUpTo(S, n - 1)
         IN  shorter \cup {Append(q, x) : q \in shorter, x \in S}

\* a second event of the same emitter, sealed alike over another message
SecondLog(l) ==
    [l EXCEPT !.ct = SapphireEncrypt(l.ct.k, l.nonce, toUtf8Bytes(EnvMessage), <<>>)]

\* one contract emitting two different events in one transaction, in either
\* order
TwinReceipts ==
    LET firsts == {l \in ShapeLogs : l.sig = SigSender /\ l.address.id # "Other"}
    IN  {<<l, SecondLog(l)>> : l \in firsts} \cup {<<SecondLog(l), l>> : l \in firsts}

EnvReceipts ==
    SeqsUpTo(ShapeLogs, MaxLogs) \cup {<<l>> : l \in SealedLogs \cup TamperedLogs}
        \cup TwinReceipts

\* a transaction sent by the externally owned account "Signer"
EnvTx ==
    /\ pc = "idle"
    /\ chain = <<>>
    /\ \E r \in EnvReceipts : chain' = <<[from |-> "Signer", logs |-> r]>>
    /\ UNCHANGED <<contractSk, contractPk, session, args, pc, material, receipt,
                   matches, sessionKey, listeners, sigint, delivered, handlers,
                   calls, out, err, exitCode>>

ObserveInputs ==
    {a \in DecryptInputs :
        /\ a.contract # toLowerCase(Checksum("EncryptedEventsECDH"))
        /\ a.key # <<>> \/ a.secret # <<>>}

StartDecryptMined ==
    /\ pc = "idle"
    /\ StartDecrypt(ObserveInputs)

NextDecrypt ==
    \/ EnvTx
    \/ StartDecryptMined
    \/ DecFetch
    \/ DecScan
    \/ DecOpen

SpecDecrypt == Init /\ [][NextDecrypt]_vars

-----------------------------------------------------------------------------
(* LISTEN (enc task, its earlier version, and the listen tasks) *)

ListenArgs ==
    {[NoArgs EXCEPT !.action = "listen", !.impl = i, !.mode = m, !.contract = c,
                    !.key = k, !.secret = sec, !.aadmode = am, !.hkdf = h] :
        i \in {"enc", "enc1", "task", "task0"}, m \in {"key", "ecdh"},
        c \in {NoAddr} \cup {Checksum(x) : x \in {"EncryptedEvents", "EncryptedEventsECDH"}},
        k \in KeyInputs, sec \in SecretInputs,
        am \in AadModes, h \in BOOLEAN}

\* the parameters each implementation has: the listen tasks require
\* --contract and --key or --secret; the first listen task has no --aad
ListenInputs ==
    {a \in ListenArgs :
        /\ IF a.mode = "key" THEN a.secret = <<>> ELSE a.key = <<>>
        /\ a.mode = "key" => ~a.hkdf /\ a.contract.id # "EncryptedEventsECDH"
        /\ a.impl # "enc" => a.aadmode # "context" /\ ~a.hkdf
        /\ a.impl \in {"task", "task0"} =>
              a.contract # NoAddr /\ (a.key # <<>> \/ a.secret # <<>>)
        /\ (a.impl = "task0" /\ a.mode = "key") => a.aadmode = "none"}

StartListen ==
    /\ pc = "idle"
    /\ \E a \in ListenInputs : Spawn(a, "listen_setup")

Setup(e, key, lines, cs) == [err |-> e, key |-> key, lines |-> lines, calls |-> cs]

AadWarning(a) ==
    IF a.aadmode # "none" THEN <<Line("AAD mode:", <<>>)>> ELSE <<>>

PkCall(a) == <<Call("contractPublicKey", <<AddressBytes(a.contract.id)>>)>>

\* enc task, key mode: up to new AEAD(getBytes(key))
EncListenKeySetup(a) ==
    IF a.contract = NoAddr
    THEN Setup("--contract is required for 'emit' and 'listen'", <<>>, <<>>, <<>>)
    ELSE IF a.key = <<>>
    THEN Setup("--key is required in key mode for listen", <<>>, <<>>, <<>>)
    ELSE LET lines == (IF a.hkdf THEN <<Line("--hkdf is ignored in key mode.", <<>>)>>
                       ELSE <<>>)
                      \o <<Line("Listening for Encrypted events (Ctrl-C to quit)", <<>>)>>
                      \o AadWarning(a)
         IN  IF newAEAD(a.key) # "none" THEN Setup(newAEAD(a.key), <<>>, lines, <<>>)
             ELSE Setup("none", a.key, lines, <<>>)

\* enc task, ecdh mode: up to baseKey = await deriveEcdhKey(contract, secret)
EncListenEcdhSetup(a) ==
    IF a.contract = NoAddr
    THEN Setup("--contract is required for 'emit' and 'listen'", <<>>, <<>>, <<>>)
    ELSE IF a.secret = <<>>
    THEN Setup("--secret is required in ecdh mode for listen", <<>>, <<>>, <<>>)
    ELSE LET lines == <<Line("Listening (ECDH) for Encrypted events (Ctrl-C to quit)", <<>>)>>
                      \o AadWarning(a)
                      \o (IF a.hkdf
                          THEN <<Line("Note: --hkdf derives a per-message key off-chain using nonce.", <<>>)>>
                          ELSE <<>>)
         IN  IF ~HasPublicKey(a.contract)
             THEN Setup("contractPublicKey: call failed", <<>>, lines, PkCall(a))
             ELSE IF scalarMultSizeError(a.secret, contractPublicKey) # "none"
             THEN Setup(scalarMultSizeError(a.secret, contractPublicKey), <<>>, lines, PkCall(a))
             ELSE Setup("none", deriveEcdhKey(a.contract, a.secret), lines, PkCall(a))

Enc1AadWarning(a) ==
    IF a.aadmode = "sender"
    THEN <<Line("AAD binding uses abi.encodePacked(msg.sender).", <<>>)>>
    ELSE <<>>

\* earlier enc task, key mode: the AEAD is built before the banner
Enc1ListenKeySetup(a) ==
    IF a.contract = NoAddr
    THEN Setup("--contract is required for 'emit' and 'listen'", <<>>, <<>>, <<>>)
    ELSE IF a.key = <<>>
    THEN Setup("--key is required in key mode for listen", <<>>, <<>>, <<>>)
    ELSE IF newAEAD(a.key) # "none" THEN Setup(newAEAD(a.key), <<>>, <<>>, <<>>)
    ELSE Setup("none", a.key,
               <<Line("Listening for Encrypted events (Ctrl-C to quit)", <<>>)>>
               \o Enc1AadWarning(a), <<>>)

\* earlier enc task, ecdh mode
Enc1ListenEcdhSetup(a) ==
    IF a.contract = NoAddr
    THEN Setup("--contract is required for 'emit' and 'listen'", <<>>, <<>>, <<>>)
    ELSE IF a.secret = <<>>
    THEN Setup("--secret is required in ecdh mode for listen", <<>>, <<>>, <<>>)
    ELSE IF ~HasPublicKey(a.contract)
    THEN Setup("contractPublicKey: call failed", <<>>, <<>>, PkCall(a))
    ELSE IF scalarMultSizeError(a.secret, contractPublicKey) # "none"
    THEN Setup(scalarMultSizeError(a.secret, contractPublicKey), <<>>, <<>>, PkCall(a))
    ELSE Setup("none", deriveSymmetricKey(contractPublicKey, a.secret),
               <<Line("Listening (ECDH) for Encrypted events (Ctrl-C to quit)", <<>>)>>
               \o Enc1AadWarning(a), PkCall(a))

\* listen task: the banner and the warnings, then new AEAD(getBytes(key))
TaskListenKeySetup(a) ==
    LET lines == <<Line("Listening for Encrypted events (Ctrl-C to quit)", <<>>)>>
                 \o Enc1AadWarning(a)
                 \o (IF a.aadmode = "sender"
                     THEN <<Line("With relayers/forwarders, msg.sender # tx.from and decryption will fail.", <<>>)>>
                     ELSE <<>>)
    IN  IF newAEAD(a.key) # "none" THEN Setup(newAEAD(a.key), <<>>, lines, <<>>)
        ELSE Setup("none", a.key, lines, <<>>)

\* listen-ecdh task: X25519, then the labeled KDF
TaskListenEcdhSetup(a) ==
    IF ~HasPublicKey(a.contract)
    THEN Setup("contractPublicKey: call failed", <<>>, <<>>, PkCall(a))
    ELSE IF Len(a.secret) # KeySize \/ Len(contractPublicKey) # KeySize
    THEN Setup("Invalid key lengths: both caller secret and contract public must be 32 bytes",
               <<>>, <<>>, PkCall(a))
    ELSE Setup("none",
               deriveSapphireSymmetricKeyFromShared(scalarMult(a.secret, contractPublicKey)),
               <<Line("Listening (ECDH) for Encrypted events (Ctrl-C to quit)", <<>>)>>
               \o Enc1AadWarning(a)
               \o (IF a.aadmode = "sender"
                   THEN <<Line("With relayers/forwarders, msg.sender # tx.from and decryption will fail.", <<>>)>>
                   ELSE <<>>),
               PkCall(a))

\* first listen task
Task0ListenKeySetup(a) ==
    LET lines == <<Line("Listening for Encrypted events (Ctrl-C to quit)", <<>>)>>
    IN  IF newAEAD(a.key) # "none" THEN Setup(newAEAD(a.key), <<>>, lines, <<>>)
        ELSE Setup("none", a.key, lines, <<>>)

\* first listen-ecdh task: the raw X25519 output is the AEAD key
Task0ListenEcdhSetup(a) ==
    IF ~HasPublicKey(a.contract)
    THEN Setup("contractPublicKey: call failed", <<>>, <<>>, PkCall(a))
    ELSE IF Len(a.secret) # KeySize \/ Len(contractPublicKey) # KeySize
    THEN Setup("Invalid key lengths: both caller secret and contract public must be 32 bytes",
               <<>>, <<>>, PkCall(a))
    ELSE Setup("none", scalarMult(a.secret, contractPublicKey),
               <<Line("Listening (ECDH) for Encrypted events (Ctrl-C to quit)", <<>>)>>,
               PkCall(a))

ListenSetupOf(a) ==
    CASE a.impl = "enc" /\ a.mode = "key" -> EncListenKeySetup(a)
      [] a.impl = "enc" /\ a.mode = "ecdh" -> EncListenEcdhSetup(a)
      [] a.impl = "enc1" /\ a.mode = "key" -> Enc1ListenKeySetup(a)
      [] a.impl = "enc1" /\ a.mode = "ecdh" -> Enc1ListenEcdhSetup(a)
      [] a.impl = "task" /\ a.mode = "key" -> TaskListenKeySetup(a)
      [] a.impl = "task" /\ a.mode = "ecdh" -> TaskListenEcdhSetup(a)
      [] a.impl = "task0" /\ a.mode = "key" -> Task0ListenKeySetup(a)
      [] OTHER -> Task0ListenEcdhSetup(a)

\* a remote request that the network collaborator fails
TransportError == "transport: request failed"

\* the checks of the task parameters that precede the first remote request
ArgumentErrors ==
    {"--contract is required for 'emit' and 'listen'",
     "--key is required in key mode for listen",
     "--secret is required in ecdh mode for listen"}

\* the remote steps of the setup: getContractAt, and in ecdh mode the fetch
\* of the contract's public key
SetupFaults(a) ==
    IF a.mode = "ecdh" THEN {"none", "attach", "publicKey"} ELSE {"none", "attach"}

\* the setup when the remote step named by fault fails: the awaited request
\* rejects and the action throws what it rejected with
FaultedSetup(a, fault) ==
    LET r == ListenSetupOf(a)
    IN  IF fault = "none" \/ r.err \in ArgumentErrors THEN r
        ELSE IF fault = "attach" THEN Setup(TransportError, <<>>, <<>>, <<>>)
        ELSE Setup(TransportError, <<>>, IF a.impl = "enc" THEN r.lines ELSE <<>>, PkCall(a))

\* the implementation ends its action with process.on("SIGINT", ...) and
\* await new Promise(() => {}); the first listen tasks end after subscribing
KeepsAlive(impl) == impl # "task0"

\* a setup that subscribes before it has its key: the listener is attached
\* also when the setup then throws
ListenSetupSubscribesFirst ==
    /\ pc = "listen_setup"
    /\ \E fault \in SetupFaults(args) :
          LET res == FaultedSetup(args, fault)
          IN  /\ out' = out \o res.lines
              /\ calls' = calls \o res.calls
              /\ sessionKey' = res.key
              /\ listeners' = TRUE
              /\ IF res.err # "none"
                 THEN Throw(res.err) /\ UNCHANGED sigint
                 ELSE /\ UNCHANGED <<err, exitCode>>
                      /\ IF KeepsAlive(args.impl)
                         THEN sigint' = "handler" /\ pc' = "listening"
                         ELSE sigint' = sigint /\ pc' = "returned"
    /\ UNCHANGED <<contractSk, contractPk, chain, session, args, material, receipt,
                   matches, delivered, handlers>>

\* validation, key, subscription, and the end of the action body
ListenSetup ==
    /\ pc = "listen_setup"
    /\ \E fault \in SetupFaults(args) :
          LET res == FaultedSetup(args, fault)
          IN  /\ out' = out \o res.lines
              /\ calls' = calls \o res.calls
              /\ sessionKey' = res.key
              /\ IF res.err # "none"
                 THEN Throw(res.err) /\ UNCHANGED <<listeners, sigint>>
                 ELSE /\ listeners' = TRUE
                      /\ UNCHANGED <<err, exitCode>>
                      /\ IF KeepsAlive(args.impl)
                         THEN sigint' = "handler" /\ pc' = "listening"
                         ELSE sigint' = sigint /\ pc' = "returned"
    /\ UNCHANGED <<contractSk, contractPk, chain, session, args, material, receipt,
                   matches, delivered, handlers>>

\* what instance.on(filter, listener) hands the listener for a filter built
\* by instance.filters.Encrypted(...): the event payload alone, the decoded
\* values under payload.args.  The values the listener reads as sender,
\* nonce and ciphertext:
\*   enc    (nonce, ciphertext, event): nonce is the payload object, the
\*          other two are undefined
\*   enc1   ev.args[0], ev.args[1], ev.args[2]
\*   task   ev.args[0], ev.args[1] of the shape without a sender
ListenerParams(impl, e) ==
    CASE impl = "enc" ->
           [bytesLike |-> FALSE, sender |-> "", nonce |-> <<>>, ciphertext |-> NoCipher]
      [] impl = "enc1" ->
           [bytesLike |-> TRUE, sender |-> e.sender, nonce |-> e.nonce, ciphertext |-> e.ct]
      [] OTHER ->
           [bytesLike |-> TRUE, sender |-> "", nonce |-> e.nonce, ciphertext |-> e.ct]

\* the result of one run of the listener body
Handled(e, key, aad, opened, text, cs) ==
    [err |-> e, key |-> key, aad |-> aad, opened |-> opened, text |-> text, calls |-> cs]

\* a listener that reports what made the tag fail
HandlerOpenDiagnosing(key, p, aad, cs) ==
    IF ~p.bytesLike THEN Handled("invalid BytesLike value", key, aad, FALSE, <<>>, cs)
    ELSE LET r == AEADDecrypt(key, Slice(p.nonce, 0, NonceSize), p.ciphertext, aad)
         IN  IF r.ok THEN Handled("none", key, aad, TRUE, TextDecoderDecode(r.p), cs)
             ELSE IF p.ciphertext.k # key THEN Handled("wrong key", key, aad, TRUE, <<>>, cs)
             ELSE IF p.ciphertext.a # aad THEN Handled("wrong AAD", key, aad, TRUE, <<>>, cs)
             ELSE Handled(AuthFailure, key, aad, TRUE, <<>>, cs)

\* ethers.getBytes(nonce).slice(0, NonceSize), aead.decrypt(...), decode
HandlerOpen(key, p, aad, cs) ==
    IF ~p.bytesLike THEN Handled("invalid BytesLike value", key, aad, FALSE, <<>>, cs)
    ELSE LET r == AEADDecrypt(key, Slice(p.nonce, 0, NonceSize), p.ciphertext, aad)
         IN  IF r.ok THEN Handled("none", key, aad, TRUE, TextDecoderDecode(r.p), cs)
             ELSE Handled(AuthFailure, key, aad, TRUE, <<>>, cs)

\* enc task, key mode: the AEAD of the session
EncListenKey(a, key, e) ==
    LET p == ListenerParams(a.impl, e)
        aad == getAadBytes(a.aadmode, p.sender, a.contract)
        cs == AadCalls(a.aadmode, p.sender)
    IN  IF ~aad.ok THEN Handled(aad.err, key, <<>>, FALSE, <<>>, cs)
        ELSE HandlerOpen(key, p, aad.bytes, cs)

\* enc task, ecdh mode: with --hkdf a key per message from baseKey and n15
EncListenEcdh(a, baseKey, e) ==
    LET p == ListenerParams(a.impl, e)
        aad == getAadBytes(a.aadmode, p.sender, a.contract)
        cs == AadCalls(a.aadmode, p.sender)
        n15 == Slice(p.nonce, 0, NonceSize)
    IN  IF ~aad.ok THEN Handled(aad.err, baseKey, <<>>, FALSE, <<>>, cs)
        ELSE IF ~p.bytesLike
        THEN Handled("invalid BytesLike value", baseKey, aad.bytes, FALSE, <<>>, cs)
        ELSE HandlerOpen(IF a.hkdf THEN hkdfSync(baseKey, n15) ELSE baseKey, p, aad.bytes, cs)

\* earlier enc task, both modes
Enc1Listen(a, key, e) ==
    LET p == ListenerParams(a.impl, e)
    IN  HandlerOpen(key, p, Enc1Aad(a, p), <<>>)

\* listen and listen-ecdh tasks: with --aad the AAD is tx.from of the
\* event's transaction, fetched in the handler
TaskListen(a, key, e, txFrom) ==
    LET p == ListenerParams(a.impl, e)
    IN  IF a.aadmode = "sender"
        THEN HandlerOpen(key, p, AddressBytes(txFrom), <<Call("getTransaction", <<>>)>>)
        ELSE HandlerOpen(key, p, <<>>, <<>>)

\* a listener that fetches the contract's public key again for each event
HandlerRunRefetching(a, key, e, txFrom) ==
    LET h == CASE a.impl = "enc" /\ a.mode = "key" -> EncListenKey(a, key, e)
               [] a.impl = "enc" /\ a.mode = "ecdh" -> EncListenEcdh(a, key, e)
               [] a.impl = "enc1" -> Enc1Listen(a, key, e)
               [] OTHER -> TaskListen(a, key, e, txFrom)
    IN  IF a.mode = "ecdh" THEN [h EXCEPT !.calls = PkCall(a) \o h.calls] ELSE h

\* the listener body of the implementation
HandlerRun(a, key, e, txFrom) ==
    CASE a.impl = "enc" /\ a.mode = "key" -> EncListenKey(a, key, e)
      [] a.impl = "enc" /\ a.mode = "ecdh" -> EncListenEcdh(a, key, e)
      [] a.impl = "enc1" -> Enc1Listen(a, key, e)
      [] OTHER -> TaskListen(a, key, e, txFrom)

PlaintextTag(a) == IF a.mode = "key" THEN "Decrypted:" ELSE "Decrypted (ECDH):"

FailLine(e) == [tag |-> "Failed to decrypt event:", text |-> <<>>, err |-> e]

\* console.log of the plaintext, or console.error in the catch
HandlerLine(a, h) == IF h.err = "none" THEN Line(PlaintextTag(a), h.text) ELSE FailLine(h.err)

Handler(stage, h) ==
    [stage |-> stage, err |-> h.err, key |-> h.key, aad |-> h.aad,
     opened |-> h.opened, text |-> h.text]

\* the events the subscription can deliver: logs of the contract at the
\* --contract address whose topic is the Encrypted event of the interface
ListenEvents(a) ==
    {l \in SealedLogs \cup TamperedLogs :
        /\ l.address.id = a.contract.id
        /\ l.sig = IfaceOf(a.impl)
        /\ l.ct.n = Fill(NonceSize, 0)}

\* the end of the listener body: console.log of the plaintext, or the
\* catch, whose console.error is all a failure does
\* a listener body without the try/catch: the failure escapes
SettleUncaught(h) ==
    IF h.err = "none"
    THEN /\ out' = Append(out, HandlerLine(args, h))
         /\ UNCHANGED <<pc, listeners, err, exitCode>>
    ELSE /\ Throw(h.err)
         /\ listeners' = FALSE
         /\ UNCHANGED out

Settle(h) ==
    /\ out' = Append(out, HandlerLine(args, h))
    /\ UNCHANGED <<pc, listeners, err, exitCode>>

\* a subscription that hands over the next event only when every earlier
\* listener has ended without a failure
ListenDeliverSerial ==
    /\ pc = "listening"
    /\ listeners
    /\ Len(delivered) < MaxEvents
    /\ \A i \in 1..Len(handlers) :
          handlers[i].stage = "settled" /\ handlers[i].err = "none"
    /\ \E e \in ListenEvents(args) :
          LET h == HandlerRun(args, sessionKey, e, "Signer")
          IN  /\ delivered' = Append(delivered, e)
              /\ calls' = calls \o h.calls
              /\ IF h.calls # <<>>
                 THEN /\ handlers' = Append(handlers, Handler("await", h))
                      /\ UNCHANGED <<out, pc, listeners, err, exitCode>>
                 ELSE /\ handlers' = Append(handlers, Handler("settled", h))
                      /\ Settle(h)
    /\ UNCHANGED <<contractSk, contractPk, chain, session, args, material, receipt,
                   matches, sessionKey, sigint>>

\* the provider delivers an event; the listener runs to its first remote
\* request, or to its end when it makes none
ListenDeliver ==
    /\ pc = "listening"
    /\ listeners
    /\ Len(delivered) < MaxEvents
    /\ \E e \in ListenEvents(args) :
          LET h == HandlerRun(args, sessionKey, e, "Signer")
          IN  /\ delivered' = Append(delivered, e)
              /\ calls' = calls \o h.calls
              /\ IF h.calls # <<>>
                 THEN /\ handlers' = Append(handlers, Handler("await", h))
                      /\ UNCHANGED <<out, pc, listeners, err, exitCode>>
                 ELSE /\ handlers' = Append(handlers, Handler("settled", h))
                      /\ Settle(h)
    /\ UNCHANGED <<contractSk, contractPk, chain, session, args, material, receipt,
                   matches, sessionKey, sigint>>

\* the listener whose awaited remote request rejected: the throw lands in
\* the catch before the AEAD is reached
Rejected(h) == [h EXCEPT !.err = TransportError, !.opened = FALSE, !.text = <<>>]

\* the remote request of the suspended listener of event i returns, or
\* fails, and the listener ends
HandlerResumeOf(i) ==
    /\ pc = "listening"
    /\ i \in 1..Len(handlers)
    /\ handlers[i].stage = "await"
    /\ \E ok \in BOOLEAN :
          LET h == IF ok THEN handlers[i] ELSE Rejected(handlers[i])
          IN  /\ handlers' = [handlers EXCEPT ![i] = [h EXCEPT !.stage = "settled"]]
              /\ Settle(h)
    /\ UNCHANGED <<contractSk, contractPk, chain, session, args, material, receipt,
                   matches, sessionKey, sigint, delivered, calls>>

\* the suspended listeners resume in any order
HandlerResume == \E i \in 1..MaxEvents : HandlerResumeOf(i)

\* the operator's interrupt: the registered handler removes the listeners
\* and calls process.exit(0); with no handler the signal ends the process
\* a SIGINT handler that neither removes the listeners nor exits
SigintIgnored ==
    /\ args.action = "listen"
    /\ pc \in {"listening", "returned"}
    /\ sigint' = "received"
    /\ UNCHANGED <<contractSk, contractPk, chain, session, args, pc, material, receipt,
                   matches, sessionKey, listeners, delivered, handlers, calls, out,
                   err, exitCode>>

Sigint ==
    /\ args.action = "listen"
    /\ pc \in {"listening", "returned"}
    /\ sigint' = "received"
    /\ IF sigint = "handler"
       THEN listeners' = FALSE /\ pc' = "exited" /\ exitCode' = 0
       ELSE listeners' = listeners /\ pc' = "killed" /\ exitCode' = 130
    /\ UNCHANGED <<contractSk, contractPk, chain, session, args, material, receipt,
                   matches, sessionKey, delivered, handlers, calls, out, err>>

\* the action's promise has resolved: the task runner ends the process
RunnerExit ==
    /\ args.action = "listen"
    /\ pc = "returned"
    /\ pc' = "done"
    /\ exitCode' = 0
    /\ UNCHANGED <<contractSk, contractPk, chain, session, args, material, receipt,
                   matches, sessionKey, listeners, sigint, delivered, handlers, calls,
                   out, err>>

NextListen ==
    \/ StartListen
    \/ ListenSetup
    \/ ListenDeliver
    \/ HandlerResume
    \/ Sigint
    \/ RunnerExit

SpecListen == Init /\ [][NextListen]_vars

\* a listen started before any transaction is mined: what it is delivered
\* does not depend on the chain's past
StartListenFirst ==
    /\ chain = <<>>
    /\ StartListen

\* decrypt and listen over the same environment
NextObserve ==
    \/ EnvTx
    \/ StartDecryptMined
    \/ DecFetch
    \/ DecScan
    \/ DecOpen
    \/ StartListenFirst
    \/ ListenSetup
    \/ ListenDeliver
    \/ HandlerResume
    \/ Sigint
    \/ RunnerExit

SpecObserve == Init /\ [][NextObserve]_vars

\* the checks at the head of the enc task, in their order; the earlier
\* version has no aadmode parameter ("none" when all pass)
ValidateArgs(a) ==
    IF a.action \notin {"emit", "listen", "decrypt"}
    THEN "action must be 'emit', 'listen', or 'decrypt'"
    ELSE IF a.mode \notin {"key", "ecdh"}
    THEN "mode must be 'key' or 'ecdh'"
    ELSE IF a.impl = "enc" /\ a.aadmode \notin AadModes
    THEN "aadmode must be 'none', 'sender', or 'context'"
    ELSE IF a.action \in {"emit", "listen"} /\ a.contract = NoAddr
    THEN "--contract is required for 'emit' and 'listen'"
    ELSE IF a.action = "decrypt" /\ a.mode = "ecdh" /\ a.contract = NoAddr
    THEN "--contract is required for decrypt in ecdh mode"
    ELSE "none"

\* invocations of the enc task with any action, mode, aadmode, with or
\* without --contract, and with no key or secret given
EncArgs ==
    {[NoArgs EXCEPT !.action = act, !.impl = i, !.mode = m, !.contract = c,
                    !.tx = 1, !.aadmode = am] :
        act \in {"emit", "listen", "decrypt", "status"}, i \in {"enc", "enc1"},
        m \in {"key", "ecdh", "rsa"}, am \in AadModes \cup {"origin"},
        c \in {NoAddr, Checksum("EncryptedEvents"), Checksum("EncryptedEventsECDH")}}

\* those of them that the checks reject
RejectedInputs ==
    {a \in EncArgs :
        /\ ValidateArgs(a) # "none"
        /\ a.impl = "enc1" => a.aadmode \in {"none", "sender"}}

StartRejected ==
    /\ pc = "idle"
    /\ \E a \in RejectedInputs : Spawn(a, "validate")

\* a task that attaches to the contract and draws its key before it looks
\* at its arguments
ValidateAfterResolving ==
    /\ pc = "validate"
    /\ calls' = Append(calls, Call("getContractAt", <<AddressBytes(args.contract.id)>>))
    /\ material' = Fill(KeySize, 0)
    /\ Throw(ValidateArgs(args))
    /\ UNCHANGED <<contractSk, contractPk, chain, session, args, receipt, matches,
                   sessionKey, listeners, sigint, delivered, handlers, out>>

\* the first failing check throws; nothing else has run
Validate ==
    /\ pc = "validate"
    /\ Throw(ValidateArgs(args))
    /\ UNCHANGED <<contractSk, contractPk, chain, session, args, material, receipt,
                   matches, sessionKey, listeners, sigint, delivered, handlers,
                   calls, out>>

\* the three actions of the task over the same environment
NextActions ==
    \/ EnvTx
    \/ StartEmit
    \/ EmitResolve
    \/ EmitCall
    \/ EmitPrint
    \/ StartRejected
    \/ Validate
    \/ StartDecryptMined
    \/ DecFetch
    \/ DecScan
    \/ DecOpen
    \/ StartListenFirst
    \/ ListenSetup
    \/ ListenDeliver
    \/ HandlerResume
    \/ Sigint
    \/ RunnerExit

SpecActions == Init /\ [][NextActions]_vars

-----------------------------------------------------------------------------
(* Properties *)

PlaintextTags ==
    {"Decrypted message:", "Decrypted message (ECDH):", "Decrypted:", "Decrypted (ECDH):"}

Plaintexts == SelectSeq(out, LAMBDA l : l.tag \in PlaintextTags)

NotFoundErrors ==
    {"Encrypted event not found for the provided contract in this transaction",
     "Encrypted event not found in tx logs", "Encrypted event not found"}

DecryptEnded == args.action = "decrypt" /\ pc \in {"done", "failed"}

\* the log of the emitted transaction the round trip decrypts
Emitted == chain[1].logs[1]

\* C1: after an emit in key mode with key k and AAD mode none, a decrypt of
\* that transaction in key mode with the same key and AAD mode none outputs
\* exactly the emitted message m.
C1_PresharedRoundTrip ==
    \A m \in Messages :
        ( /\ DecryptEnded
          /\ args.mode = "key"
          /\ args.aadmode = "none"
          /\ Emitted.address.id = "EncryptedEvents"
          /\ Emitted.ct.a = <<>>
          /\ Emitted.ct.k = args.key
          /\ Emitted.ct.p = toUtf8Bytes(m) )
        => (pc = "done" /\ Plaintexts = <<Line("Decrypted message:", m)>>)

\* C2: after an emit in ecdh mode that sends the public key of sk with
\* sender-bound AAD, a decrypt in ecdh mode with secret sk, the same contract
\* and AAD mode sender outputs exactly the emitted message, and the key
\* derived off-chain equals the key the contract derived.
C2_EcdhRoundTrip ==
    \A m \in Messages :
        ( /\ DecryptEnded
          /\ args.mode = "ecdh"
          /\ args.aadmode = "sender"
          /\ ~args.hkdf
          /\ args.contract = Emitted.address
          /\ Emitted.address.id = "EncryptedEventsECDH"
          /\ Emitted.ct.a = AddressBytes(Emitted.sender)
          /\ Emitted.ct.k = deriveSymmetricKey(getPublicKey(args.secret), LE32(contractSk))
          /\ Emitted.ct.p = toUtf8Bytes(m) )
        => ( /\ pc = "done"
             /\ Plaintexts = <<Line("Decrypted message (ECDH):", m)>>
             /\ sessionKey = Emitted.ct.k )

\* C10: the labeled KDF over X25519(a_sk, b_pk) equals the one over
\* X25519(b_sk, a_pk) for all keypairs, so the key the caller derives
\* off-chain from (its secret, the contract's public key) is the key the
\* contract derived on-chain from (the caller's public key, its secret).
C10_EcdhSymmetry ==
    /\ \A a \in Secrets, b \in Secrets :
          deriveSapphireSymmetricKeyFromShared(scalarMult(a, getPublicKey(b)))
          = deriveSapphireSymmetricKeyFromShared(scalarMult(b, getPublicKey(a)))
    /\ ( /\ args.action = "emit"
         /\ args.mode = "ecdh"
         /\ pc \in {"emit_wait", "done"} )
       => Emitted.ct.k = deriveEcdhKey(args.contract, material)

C10_Witness ==
    /\ args.action = "emit"
    /\ args.mode = "ecdh"
    /\ pc = "done"
    /\ material # LE32(contractSk)
    /\ Emitted.ct.k = deriveEcdhKey(args.contract, material)

\* the receipt holds two Encrypted-shaped logs of two different addresses
TwoEmitters ==
    \E i \in 1..Len(receipt), j \in 1..Len(receipt) :
        /\ ParsesAsEncrypted(args.impl, receipt[i])
        /\ ParsesAsEncrypted(args.impl, receipt[j])
        /\ receipt[i].address.id # receipt[j].address.id

\* C4: in every decrypt implementation, when the receipt holds two
\* Encrypted-shaped logs of two different contract addresses and no target
\* address is given, decrypt fails with the ambiguity error and outputs no
\* plaintext.
C4_AmbiguityIsError ==
    ( /\ args.action = "decrypt"
      /\ pc \in {"dec_open", "done", "failed"}
      /\ args.contract = NoAddr
      /\ TwoEmitters )
    => ( /\ pc = "failed"
         /\ err = "Ambiguous: multiple Encrypted events"
         /\ Plaintexts = <<>> )

\* the scan of the fetched receipt is over
Scanned ==
    /\ args.action = "decrypt"
    /\ pc \in {"dec_open", "done", "failed"}
    /\ calls # <<>>

TargetGiven == args.impl # "task" /\ args.contract # NoAddr

\* the log passes the address filter and decodes as an Encrypted event
Eligible(l) ==
    /\ TargetGiven => l.address.id = args.contract.id
    /\ l.sig = (IF args.impl = "task" THEN SigLegacy ELSE SigSender)

\* C5: with a target address, every log of another address is discarded and
\* is never the decrypted event; when no log passes the filter and decodes
\* as an Encrypted event, decrypt fails with the event-not-found error and
\* performs no decryption.
C5_TargetFilter ==
    Scanned =>
        /\ TargetGiven =>
              \A i \in 1..Len(matches) :
                  /\ matches[i].parsed.address.id = args.contract.id
                  /\ \E j \in 1..Len(receipt) : receipt[j] = matches[i].parsed
        /\ (TargetGiven /\ pc = "done") =>
              Plaintexts[1].text = TextDecoderDecode(matches[1].parsed.ct.p)
        /\ (\A j \in 1..Len(receipt) : ~Eligible(receipt[j])) =>
              /\ pc = "failed"
              /\ err \in NotFoundErrors
              /\ sessionKey = <<>>
              /\ out = <<>>
              /\ calls = <<Call("getTransactionReceipt", <<>>)>>

C5_Witness ==
    /\ Scanned
    /\ TargetGiven
    /\ pc = "done"
    /\ Len(receipt) = 2
    /\ receipt[1].address.id # args.contract.id
    /\ receipt[1].sig = SigSender
    /\ matches[1].parsed = receipt[2]

\* decrypt has handed the chosen event to the AEAD
DecryptOpened == DecryptEnded /\ matches # <<>> /\ sessionKey # <<>>

\* the AAD bytes decrypt computes for the chosen event
DecryptAad ==
    LET ev == matches[1].parsed
    IN  CASE args.impl = "enc" ->
               getAadBytes(args.aadmode, ev.sender, TargetAddr(args, matches[1])).bytes
          [] args.impl = "enc1" -> Enc1Aad(args, ev)
          [] OTHER -> IF args.aadmode = "sender" THEN AddressBytes(chain[args.tx].from)
                      ELSE <<>>

Settled(i) == handlers[i].stage = "settled"

\* C3: an event sealed with AAD bytes a, opened by decrypt or by a listen
\* handler with AAD bytes a' # a, ends in the authentication failure and
\* yields no plaintext, in key and in ecdh mode; every plaintext output
\* belongs to an event opened with the AAD it was sealed with.
C3_AadMismatchNoPlaintext ==
    /\ (DecryptOpened /\ DecryptAad # matches[1].parsed.ct.a) =>
          (pc = "failed" /\ err = AuthFailure /\ Plaintexts = <<>>)
    /\ (args.action = "listen") =>
          /\ \A i \in 1..Len(handlers) :
                (handlers[i].opened /\ handlers[i].aad # delivered[i].ct.a) =>
                    (handlers[i].err = AuthFailure /\ handlers[i].text = <<>>)
          /\ Len(Plaintexts) =
                Cardinality({i \in 1..Len(handlers) :
                                Settled(i) /\ handlers[i].err = "none"
                                /\ handlers[i].aad = delivered[i].ct.a})

C3_Witness ==
    /\ DecryptOpened
    /\ args.impl = "enc"
    /\ args.aadmode = "none"
    /\ matches[1].parsed.ct.a = AddressBytes(matches[1].parsed.sender)
    /\ matches[1].parsed.ct.k = sessionKey
    /\ matches[1].parsed.ct.n = Slice(matches[1].parsed.nonce, 0, NonceSize)
    /\ err = AuthFailure

\* the lines the listeners have written
HandlerLines ==
    SelectSeq(out, LAMBDA l : l.tag \in PlaintextTags \cup {"Failed to decrypt event:"})

Failed(i) == Settled(i) /\ handlers[i].err # "none"

\* the AEAD accepts what the listener of event j handed it
Authenticates(j) ==
    /\ handlers[j].opened
    /\ AEADDecrypt(handlers[j].key, Slice(delivered[j].nonce, 0, NonceSize),
                   delivered[j].ct, handlers[j].aad).ok

C7_ListenEndsOnlyByCancellation ==
    (args.action = "listen" /\ pc \in {"returned", "done", "exited", "killed"}) =>
        (sigint = "received" /\ ~listeners /\ exitCode = 0)

\* C8: once a listening session has received the interrupt signal, no
\* listener is started for a new event, no suspended listener resumes to
\* output a plaintext, and the session key is the one the setup established.
C8_CancellationStopsDeliveries ==
    (args.action = "listen" /\ sigint = "received") =>
        /\ ~ENABLED ListenDeliver
        /\ ~ENABLED HandlerResume
        /\ sessionKey = ListenSetupOf(args).key
        /\ KeepsAlive(args.impl) => (pc = "exited" /\ ~listeners /\ exitCode = 0)

C8_Witness ==
    /\ args.action = "listen"
    /\ sigint = "received"
    /\ pc = "exited"
    /\ Len(handlers) = 1
    /\ handlers[1].stage = "await"

\* the event with the trailing bytes of its nonce replaced
WithTail(l, t) ==
    [l EXCEPT !.nonce = Slice(l.nonce, 0, NonceSize) \o Fill(NONCE_SIZE_BYTES - NonceSize, t)]

Tails == 0..MaxNonceByte

\* the listener got its AAD bytes
AadComputed(h) == h.err # "Internal: sender missing from event for aadmode=sender"

\* C9: two events that agree on ciphertext, sender and the first 15 nonce
\* bytes get the same outcome from decrypt and from listen under the same
\* key and AAD, and under the sealing key and AAD the decryption succeeds
\* iff the 15-byte prefix of the event's nonce is the one the event was
\* sealed under.
C9_NonceTruncation ==
    /\ (DecryptEnded /\ matches # <<>> /\ ScanError(args, matches) = "none") =>
          LET res == DecryptChosen(args, matches[1], chain[args.tx].from)
              ev == matches[1].parsed
          IN  /\ err = res.err /\ out = res.lines
              /\ \A t \in Tails :
                    LET other == [matches[1] EXCEPT !.parsed = WithTail(ev, t)]
                    IN  DecryptChosen(args, other, chain[args.tx].from) = res
              /\ (DecryptOpened /\ sessionKey = ev.ct.k /\ DecryptAad = ev.ct.a) =>
                    (pc = "done" <=> Slice(ev.nonce, 0, NonceSize) = ev.ct.n)
    /\ (args.action = "listen") =>
          \A i \in 1..Len(handlers) :
              LET e == delivered[i]
                  h == HandlerRun(args, sessionKey, e, "Signer")
              IN  handlers[i].err # TransportError =>
                    /\ handlers[i] = Handler(handlers[i].stage, h)
                    /\ \A t \in Tails :
                          HandlerRun(args, sessionKey, WithTail(e, t), "Signer") = h
                    /\ (Settled(i) /\ AadComputed(h) /\ h.key = e.ct.k /\ h.aad = e.ct.a) =>
                          (h.err = "none" <=> Slice(e.nonce, 0, NonceSize) = e.ct.n)

\* the same, leaving out the listener of the latest enc task
C9_ExceptEncListen ==
    (args.action = "listen" /\ args.impl = "enc") \/ C9_NonceTruncation

\* the AAD byte strings an emitter may have sealed under
AadValues ==
    {<<>>, AddressBytes("Signer"), AddressBytes("Relayer"),
     solidityPacked(ChainId, Checksum("EncryptedEvents")),
     solidityPacked(ChainId, Checksum("EncryptedEventsECDH"))}

\* the events that differ from e in what makes authentication fail: the
\* sealing key, the sealed AAD bytes, or altered ciphertext bytes
SealVariants(e) ==
    {[e EXCEPT !.ct.k = k] : k \in EnvKeys \cup PresharedKeys}
    \cup {[e EXCEPT !.ct.a = a] : a \in AadValues}
    \cup {[e EXCEPT !.ct = Corrupt(e.ct)]}

\* C11: when decrypt or a listen handler fails on an event, it fails in the
\* same way (same error, same output lines, same remote requests) on every
\* event that differs only in the cause of the failure: sealed under another
\* key, sealed with other AAD bytes, or with altered ciphertext bytes; and a
\* tag the AEAD rejects always surfaces as the one authentication failure.
C11_OpaqueFailure ==
    /\ (DecryptEnded /\ matches # <<>> /\ ScanError(args, matches) = "none"
            /\ err # "none") =>
          /\ \A v \in SealVariants(matches[1].parsed) :
                LET r == DecryptChosen(args, [matches[1] EXCEPT !.parsed = v],
                                       chain[args.tx].from)
                IN  r.err # "none" =>
                      /\ r.err = err
                      /\ r.lines = out
                      /\ r.key = sessionKey
                      /\ <<Call("getTransactionReceipt", <<>>)>> \o r.calls = calls
          /\ (sessionKey # <<>> /\ err # AuthFailure) =>
                AEADDecrypt(sessionKey, Slice(matches[1].parsed.nonce, 0, NonceSize),
                            matches[1].parsed.ct, DecryptAad).ok
    /\ (args.action = "listen") =>
          \A i \in 1..Len(handlers) :
              (Failed(i) /\ handlers[i].err # TransportError) =>
                /\ \A v \in SealVariants(delivered[i]) :
                      LET h == HandlerRun(args, sessionKey, v, "Signer")
                      IN  h.err # "none" =>
                            /\ Handler("settled", h) = handlers[i]
                            /\ h.calls = HandlerRun(args, sessionKey, delivered[i], "Signer").calls
                            /\ \E k \in 1..Len(out) : out[k] = HandlerLine(args, h)
                /\ (handlers[i].opened /\ ~Authenticates(i)) =>
                      handlers[i].err = AuthFailure

\* a session in which one event failed for its AAD alone and another for
\* its altered ciphertext alone
C11_Witness ==
    /\ args.action = "listen"
    /\ Len(handlers) = 2
    /\ Failed(1) /\ Failed(2)
    /\ delivered[1].ct.k = handlers[1].key
    /\ delivered[1].ct.a # handlers[1].aad
    /\ delivered[2].ct = Corrupt(delivered[2].ct)
    /\ delivered[2].ct.a = handlers[2].aad
    /\ handlers[1].err = AuthFailure
    /\ handlers[2].err = AuthFailure
    /\ HandlerLines = <<FailLine(AuthFailure), FailLine(AuthFailure)>>

\* the errors a key of the wrong length is rejected with: by the AEAD
\* constructor, and by the encoder of the contract call
KeyLengthErrors == {"deoxysii: invalid key size", "incorrect data length"}

WrongKeyLength == args.mode = "key" /\ args.key # <<>> /\ Len(args.key) # KeySize

RightKeyLength == args.mode = "key" /\ Len(args.key) = KeySize

\* decrypt has chosen its event
EventChosen ==
    /\ DecryptEnded
    /\ matches # <<>>
    /\ ScanError(args, matches) = "none"

\* C12: in key mode a supplied key of another length than 32 bytes makes
\* emit, listen and decrypt fail with the invalid-key-length error: emit
\* issues no contract call, listen builds no AEAD and opens no subscription,
\* decrypt builds no AEAD and attempts no decryption; a 32-byte key is the
\* key sent, respectively the AEAD key, unchanged.
C12_KeyLengthFirst ==
    /\ (args.action = "emit" /\ WrongKeyLength /\ pc \notin {"emit_resolve", "emit_call"}) =>
          /\ pc = "failed"
          /\ err \in KeyLengthErrors
          /\ calls = <<>>
          /\ out = <<>>
    /\ (args.action = "listen" /\ WrongKeyLength /\ pc # "listen_setup") =>
          /\ pc = "failed"
          /\ (args.contract # NoAddr /\ err # TransportError) =>
                err \in KeyLengthErrors
          /\ sessionKey = <<>>
          /\ ~listeners
          /\ handlers = <<>>
    /\ (DecryptEnded /\ WrongKeyLength) =>
          /\ pc = "failed"
          /\ EventChosen => err \in KeyLengthErrors
          /\ sessionKey = <<>>
          /\ Plaintexts = <<>>
    /\ (args.action = "emit" /\ RightKeyLength /\ pc \in {"emit_wait", "done"}) =>
          /\ calls[Len(calls)].params[1] = args.key
          /\ chain[Len(chain)].logs[1].ct.k = args.key
    /\ (args.action = "listen" /\ RightKeyLength /\ pc = "listening") =>
          /\ sessionKey = args.key
          /\ \A i \in 1..Len(handlers) : handlers[i].key = args.key
    /\ (EventChosen /\ RightKeyLength) => sessionKey = args.key

\* the same, leaving out the emit whose contract function does not exist
C12_ExceptContextEmit ==
    (args.action = "emit" /\ EmitFunction(args.mode, args.aadmode) = "")
    \/ C12_KeyLengthFirst

\* the errors of the tasks' own checks of the caller secret
SecretLengthErrors ==
    {"Caller secret must be 32 bytes",
     "Invalid key lengths: both caller secret and contract public must be 32 bytes"}

WrongSecretLength ==
    args.mode = "ecdh" /\ args.secret # <<>> /\ Len(args.secret) # KeySize

\* C13: in ecdh mode a supplied caller secret of another length than 32
\* bytes makes emit, listen and decrypt fail with the invalid-secret-length
\* error, with no public key computed from it, no key derived from it and
\* no subscription opened.
C13_SecretLengthEveryAction ==
    /\ (args.action = "emit" /\ WrongSecretLength /\ pc # "emit_resolve") =>
          /\ pc = "failed"
          /\ err \in SecretLengthErrors
          /\ material = <<>>
          /\ calls = <<>>
    /\ (args.action = "listen" /\ WrongSecretLength /\ pc # "listen_setup"
            /\ HasPublicKey(args.contract) /\ err # TransportError) =>
          /\ pc = "failed"
          /\ err \in SecretLengthErrors
          /\ sessionKey = <<>>
          /\ ~listeners
          /\ handlers = <<>>
    /\ (EventChosen /\ WrongSecretLength /\ HasPublicKey(args.contract)) =>
          /\ pc = "failed"
          /\ err \in SecretLengthErrors
          /\ sessionKey = <<>>
          /\ Plaintexts = <<>>

\* the same with the size error of the library's scalar multiplication
\* counted as the rejection
C13_RejectedSomewhere ==
    \/ /\ args.action \in {"listen", "decrypt"}
       /\ args.impl \in {"enc", "enc1"}
       /\ WrongSecretLength
       /\ pc = "failed"
       /\ err = "bad n size"
       /\ sessionKey = <<>>
       /\ ~listeners
       /\ Plaintexts = <<>>
    \/ err = TransportError
    \/ C13_SecretLengthEveryAction

\* the listener of event i printed a plaintext
Succeeded(i) == Settled(i) /\ handlers[i].err = "none"

\* the chosen event of decrypt authenticates under the session key and the
\* computed AAD
DecryptAuthenticates ==
    AEADDecrypt(sessionKey, Slice(matches[1].parsed.nonce, 0, NonceSize),
                matches[1].parsed.ct, DecryptAad).ok

\* C14: every plaintext that decrypt or listen has output is the complete
\* plaintext (all its bytes, nothing else) of an event that authenticated
\* under the session key and the computed AAD; an event whose decryption
\* failed contributes no plaintext line and no text.
C14_AllOrNothing ==
    /\ (args.action = "decrypt") =>
          /\ Len(Plaintexts) <= 1
          /\ Plaintexts # <<>> =>
                /\ EventChosen
                /\ pc = "done"
                /\ DecryptAuthenticates
                /\ toUtf8Bytes(Plaintexts[1].text) = matches[1].parsed.ct.p
          /\ pc = "failed" => Plaintexts = <<>>
    /\ (args.action = "listen") =>
          /\ Len(Plaintexts) = Cardinality({i \in 1..Len(handlers) : Succeeded(i)})
          /\ \A k \in 1..Len(Plaintexts) :
                \E i \in 1..Len(handlers) :
                    /\ Succeeded(i)
                    /\ Authenticates(i)
                    /\ Plaintexts[k].text = handlers[i].text
                    /\ toUtf8Bytes(handlers[i].text) = delivered[i].ct.p
          /\ \A i \in 1..Len(handlers) :
                Failed(i) => handlers[i].text = <<>>
          /\ \A k \in 1..Len(out) :
                out[k].tag = "Failed to decrypt event:" => out[k].text = <<>>

\* the same with the text compared after decoding: what is output is the
\* decoding of all the plaintext bytes
C14_UpToDecoding ==
    /\ (args.action = "decrypt") =>
          /\ Len(Plaintexts) <= 1
          /\ Plaintexts # <<>> =>
                /\ EventChosen
                /\ pc = "done"
                /\ DecryptAuthenticates
                /\ Plaintexts[1].text = TextDecoderDecode(matches[1].parsed.ct.p)
          /\ pc = "failed" => Plaintexts = <<>>
    /\ (args.action = "listen") =>
          /\ Len(Plaintexts) = Cardinality({i \in 1..Len(handlers) : Succeeded(i)})
          /\ \A k \in 1..Len(Plaintexts) :
                \E i \in 1..Len(handlers) :
                    /\ Succeeded(i)
                    /\ Authenticates(i)
                    /\ Plaintexts[k].text = handlers[i].text
                    /\ handlers[i].text = TextDecoderDecode(delivered[i].ct.p)
          /\ \A i \in 1..Len(handlers) :
                Failed(i) => handlers[i].text = <<>>
          /\ \A k \in 1..Len(out) :
                out[k].tag = "Failed to decrypt event:" => out[k].text = <<>>

\* C15: of two events delivered to one subscription the earlier one's
\* handling is complete (plaintext output or failure reported) before the
\* later one's produces its result, also where the handler suspends on a
\* remote request.
C15_ArrivalOrder ==
    (args.action = "listen") =>
        \A i, j \in 1..Len(handlers) :
            (i < j /\ Settled(j) /\ handlers[j].err # TransportError) => Settled(i)

\* what holds of the order: handlers start in arrival order, one per
\* delivery, and a handler that makes no remote request has ended when the
\* next event is delivered
C15_StartedInOrder ==
    (args.action = "listen") =>
        /\ Len(handlers) = Len(delivered)
        /\ \A i \in 1..Len(handlers) :
              LET h == HandlerRun(args, sessionKey, delivered[i], "Signer")
              IN  /\ h.calls = <<>> => (Settled(i) /\ handlers[i] = Handler("settled", h))
                  /\ handlers[i].err # TransportError =>
                        Handler("settled", handlers[i]) = Handler("settled", h)

\* the subscription is open and the provider has another event for it
DeliveryPending ==
    /\ args.action = "listen"
    /\ pc = "listening"
    /\ listeners
    /\ Len(delivered) < MaxEvents
    /\ ListenEvents(args) # {}

\* C16: a handler that is suspended on a remote request or has failed
\* neither blocks nor drops the next delivery: the next event can still be
\* delivered, every delivered event has its handler started, and every
\* started handler has produced its result or can produce it, whatever the
\* state of the handlers before it.
C16_NoBlockNoDrop ==
    /\ DeliveryPending => ENABLED ListenDeliver
    /\ (args.action = "listen") =>
          /\ Len(handlers) = Len(delivered)
          /\ Len(HandlerLines) = Cardinality({i \in 1..Len(handlers) : Settled(i)})
          /\ \A j \in 1..Len(handlers) :
                \/ Settled(j)
                \/ pc # "listening"
                \/ ENABLED HandlerResumeOf(j)

\* the second event's plaintext is output while the first event's handler
\* is still suspended
C16_Witness ==
    /\ args.action = "listen"
    /\ Len(handlers) = 2
    /\ handlers[1].stage = "await"
    /\ Succeeded(2)
    /\ Len(Plaintexts) = 1

\* the session key of an ecdh decrypt, before any per-message derivation
DecryptBaseKey == deriveEcdhKey(TargetAddr(args, matches[1]), args.secret)

\* decrypt reached the AEAD with its chosen event
DecryptOpenedEcdh ==
    /\ EventChosen
    /\ args.impl = "enc"
    /\ args.mode = "ecdh"
    /\ sessionKey # <<>>
    /\ err \in {"none", AuthFailure}

\* the handler of event i got past the AAD of the event
HandlerKeyed(i) ==
    /\ handlers[i].err # TransportError
    /\ getAadBytes(args.aadmode, ListenerParams(args.impl, delivered[i]).sender,
                   args.contract).ok

\* C17: without the hkdf flag the AEAD key of an ecdh decrypt or listen is
\* the session key; with the flag it is, for each event, the HKDF of the
\* session key salted with the event's 15-byte nonce prefix, and an event
\* sealed under the plain session key then fails authentication and gives
\* no plaintext.
C17_HkdfOption ==
    /\ DecryptOpenedEcdh =>
          LET ev == matches[1].parsed
          IN  /\ ~args.hkdf => sessionKey = DecryptBaseKey
              /\ args.hkdf =>
                    /\ sessionKey = hkdfSync(DecryptBaseKey, Slice(ev.nonce, 0, NonceSize))
                    /\ ev.ct.k = DecryptBaseKey =>
                          (err = AuthFailure /\ Plaintexts = <<>>)
    /\ (args.action = "listen" /\ args.impl = "enc" /\ args.mode = "ecdh") =>
          \A i \in 1..Len(handlers) :
              HandlerKeyed(i) =>
                  /\ ~args.hkdf => handlers[i].key = sessionKey
                  /\ args.hkdf =>
                        /\ handlers[i].key =
                              hkdfSync(sessionKey, Slice(delivered[i].nonce, 0, NonceSize))
                        /\ delivered[i].ct.k = sessionKey =>
                              (Settled(i) => handlers[i].err = AuthFailure)
                        /\ handlers[i].text = <<>>

\* the same of decrypt alone, and of listen only that no event gives a
\* plaintext under the flag
C17_ExceptEncListen ==
    /\ DecryptOpenedEcdh =>
          LET ev == matches[1].parsed
          IN  /\ ~args.hkdf => sessionKey = DecryptBaseKey
              /\ args.hkdf =>
                    /\ sessionKey = hkdfSync(DecryptBaseKey, Slice(ev.nonce, 0, NonceSize))
                    /\ ev.ct.k = DecryptBaseKey =>
                          (err = AuthFailure /\ Plaintexts = <<>>)
    /\ (args.action = "listen" /\ args.impl = "enc" /\ args.mode = "ecdh") =>
          /\ args.hkdf => Plaintexts = <<>>
          /\ \A i \in 1..Len(handlers) :
                /\ handlers[i].text = <<>>
                /\ handlers[i].key = sessionKey

\* decrypt with the flag failed on an event sealed under the plain session key
C17_DecryptReached ==
    /\ DecryptOpenedEcdh
    /\ args.hkdf
    /\ matches[1].parsed.ct.k = DecryptBaseKey
    /\ err = AuthFailure

\* the context AAD of an address: 32 bytes of big-endian chain identifier,
\* then the 20 bytes of the address
ContextAadOf(addr) == Uint256BE(ChainId) \o AddressBytes(addr.id)

\* decrypt of the latest task printed a plaintext in AAD mode context
ContextDecryptDone ==
    /\ EventChosen
    /\ args.impl = "enc"
    /\ args.aadmode = "context"
    /\ pc = "done"
    /\ Plaintexts # <<>>

\* C18: in AAD mode context the AAD is the 32-byte big-endian chain
\* identifier followed by the 20 bytes of the contract address the caller
\* targeted, never the address of the log that happened to match, also in
\* a key-mode decrypt without a contract address: an event opens only if it
\* was sealed to the targeted address.
C18_ContextAad ==
    /\ ContextDecryptDone =>
          /\ args.contract # NoAddr
          /\ matches[1].parsed.ct.a = ContextAadOf(args.contract)
    /\ (args.action = "listen" /\ args.impl = "enc" /\ args.aadmode = "context") =>
          \A i \in 1..Len(handlers) :
              handlers[i].err # TransportError =>
                  /\ handlers[i].aad = ContextAadOf(args.contract)
                  /\ Len(handlers[i].aad) = WordSize + AddressSize
                  /\ \A b \in 1..(WordSize - 2) : handlers[i].aad[b] = 0
                  /\ handlers[i].aad[WordSize - 1] * 256 + handlers[i].aad[WordSize] = ChainId

\* the same where the caller gave an address; without one the address is
\* that of the matched log
C18_WhenTargeted ==
    /\ ContextDecryptDone =>
          matches[1].parsed.ct.a =
              ContextAadOf(IF args.contract # NoAddr THEN args.contract
                           ELSE matches[1].address)
    /\ (args.action = "listen" /\ args.impl = "enc" /\ args.aadmode = "context") =>
          \A i \in 1..Len(handlers) :
              handlers[i].err # TransportError =>
                  handlers[i].aad = ContextAadOf(args.contract)

\* a targeted decrypt in AAD mode context printed a plaintext
C18_TargetedReached == ContextDecryptDone /\ args.contract # NoAddr

MissingSender == "Internal: sender missing from event for aadmode=sender"

\* decrypt has scanned a receipt whose one log has the older Encrypted
\* shape, at the targeted address if one is given, and holds a 32-byte key
LegacyReceipt ==
    /\ DecryptEnded
    /\ Len(receipt) = 1
    /\ receipt[1].sig = SigLegacy
    /\ TargetOf(args) = NoAddr \/ toLowerCase(receipt[1].address) = TargetOf(args)
    /\ RightKeyLength

\* C19: a log of the older Encrypted shape, without a sender field, is
\* decoded with the sender absent and not reported as event-not-found; in
\* AAD mode none or context its decryption is attempted, in AAD mode sender
\* it fails with the missing-sender error and no plaintext.
C19_LegacyShape ==
    LegacyReceipt =>
        /\ err \notin NotFoundErrors
        /\ matches = <<Match(receipt[1])>>
        /\ matches[1].parsed.sender = ""
        /\ args.aadmode \in {"none", "context"} => err \in {"none", AuthFailure}
        /\ args.aadmode = "sender" =>
              /\ pc = "failed"
              /\ err = MissingSender
              /\ Plaintexts = <<>>

\* what the implementations do with such a log: the later tasks do not
\* decode it, the decrypt task decodes it and in AAD mode takes tx.from
C19_AsImplemented ==
    LegacyReceipt =>
        IF args.impl = "task"
        THEN /\ matches = <<Match(receipt[1])>>
             /\ matches[1].parsed.sender = ""
             /\ err \in {"none", AuthFailure}
        ELSE /\ matches = <<>>
             /\ pc = "failed"
             /\ err \in NotFoundErrors
             /\ Plaintexts = <<>>

\* both kinds of decrypt have met such a log
C19_LegacyReached == LegacyReceipt /\ args.impl = "enc" /\ args.aadmode = "sender"

\* C20: a listen whose setup met a transport failure (attaching to the
\* contract, fetching its public key) has ended with that error, without a
\* session key, without a subscription and without any event handled; a
\* transport failure inside the handler of one event is reported as that
\* event's failure, and the subscription stays open for the next event.
C20_TransportFailure ==
    (args.action = "listen") =>
        /\ (pc = "failed" /\ err = TransportError) =>
              /\ exitCode = 1
              /\ sessionKey = <<>>
              /\ ~listeners
              /\ delivered = <<>>
              /\ handlers = <<>>
              /\ HandlerLines = <<>>
              /\ ~ENABLED ListenDeliver
        /\ \A i \in 1..Len(handlers) :
              handlers[i].err = TransportError =>
                  /\ Settled(i)
                  /\ handlers[i].text = <<>>
                  /\ \E k \in 1..Len(HandlerLines) :
                        HandlerLines[k] = FailLine(TransportError)
                  /\ err # TransportError
                  /\ pc = "listening" => listeners
                  /\ DeliveryPending => ENABLED ListenDeliver

\* the first event's handler met a transport failure and the second
\* event's plaintext was output afterwards by the same subscription
C20_Witness ==
    /\ args.action = "listen"
    /\ pc = "listening"
    /\ listeners
    /\ Len(handlers) = 2
    /\ handlers[1].err = TransportError
    /\ Succeeded(2)
    /\ HandlerLines = <<FailLine(TransportError), Line(PlaintextTag(args), handlers[2].text)>>

\* the setup ended with a transport failure after the public key request
C20_SetupFailed ==
    /\ args.action = "listen"
    /\ pc = "failed"
    /\ err = TransportError
    /\ calls # <<>>

\* an emit in AAD mode context whose key material is resolved and whose
\* contract call has been attempted
ContextEmitCalled ==
    /\ args.action = "emit"
    /\ args.aadmode = "context"
    /\ Len(material) = KeySize
    /\ pc \notin {"emit_resolve", "emit_call"}

\* C21: in key and in ecdh mode an emit with AAD mode context produces an
\* Encrypted event of the targeted contract sealed with the context AAD,
\* and the decrypt of that transaction with the same key material, the same
\* contract address and AAD mode context outputs the emitted message.
C21_ContextRoundTrip ==
    /\ ContextEmitCalled =>
          /\ pc \in {"emit_wait", "done"}
          /\ err = "none"
          /\ Len(chain) = 1
          /\ Emitted.address = args.contract
          /\ Emitted.sig = SigSender
          /\ Emitted.ct.a = ContextAadOf(args.contract)
          /\ Emitted.ct.p = toUtf8Bytes(args.message)
    /\ \A m \in Messages :
          ( /\ DecryptEnded
            /\ args.aadmode = "context"
            /\ ~args.hkdf
            /\ chain # <<>>
            /\ args.contract = Emitted.address
            /\ Emitted.ct.a = ContextAadOf(args.contract)
            /\ Emitted.ct.k = (IF args.mode = "key" THEN args.key
                               ELSE deriveSymmetricKey(getPublicKey(args.secret),
                                                       LE32(contractSk)))
            /\ Emitted.ct.p = toUtf8Bytes(m)
            /\ m = <<>> \/ m[1] # CpBOM )
          => (pc = "done" /\ Len(Plaintexts) = 1 /\ Plaintexts[1].text = m)

\* what the emit does instead: the call of the missing contract function
\* throws, no transaction is sent and nothing is printed
C21_ContextEmitFails ==
    ContextEmitCalled =>
        /\ pc = "failed"
        /\ err = "TypeError: not a function"
        /\ chain = <<>>
        /\ calls = <<>>
        /\ out = <<>>

\* the emit functions of EncryptedEventsECDH
EcdhEmitFunctions == {"emitEncryptedECDH", "emitEncryptedECDHWithAad"}

\* the secrets of the running ecdh session: the caller's X25519 secret and
\* the symmetric keys derived from it
SessionSecrets ==
    LET held == {sec \in {args.secret, material} : Len(sec) = KeySize}
    IN  held
        \cup {deriveEcdhKey(args.contract, sec) : sec \in held}
        \cup (IF sessionKey # <<>> THEN {sessionKey} ELSE {})
        \cup {handlers[i].key : i \in 1..Len(handlers)}

\* C22: in every ecdh action no argument of any contract call or remote
\* request of the session is the caller's secret or a key derived from it;
\* the first argument of the emit call is the caller's public key.
C22_SecretNeverSent ==
    (args.mode = "ecdh") =>
        \A i \in 1..Len(calls) :
            /\ \A j \in 1..Len(calls[i].params) :
                  calls[i].params[j] \notin SessionSecrets
            /\ calls[i].op \in EcdhEmitFunctions =>
                  calls[i].params[1] = getPublicKey(material)

\* an ecdh emit has sent its call and printed the secret it kept, and an
\* ecdh decrypt or listen has fetched the contract's public key
C22_Witness ==
    /\ args.mode = "ecdh"
    /\ pc = "done"
    /\ args.action = "emit"
    /\ Len(calls) = 1
    /\ calls[1].op \in EcdhEmitFunctions
    /\ calls[1].params[1] = getPublicKey(material)
    /\ \E k \in 1..Len(out) : out[k].text = material

\* an ecdh listen holds its session key after the one request of its setup
C22_ListenKeyed ==
    /\ args.mode = "ecdh"
    /\ args.action = "listen"
    /\ sessionKey # <<>>
    /\ calls # <<>>

\* the callers an emitting contract can see as msg.sender: the signer of
\* the transaction, or an intermediary the signer called
Callers == {"Signer", "Relayer"}

\* the event was sealed under the key, under the nonce it shows, with the
\* 20 bytes of the caller the contract saw as AAD
SenderSealed(e, key) ==
    /\ key # <<>>
    /\ e.ct.k = key
    /\ e.ct.n = Slice(e.nonce, 0, NonceSize)
    /\ \E c \in Callers :
          /\ e.ct.a = AddressBytes(c)
          /\ e.sender \in {"", c}

\* the key a decrypt without --hkdf is to open its event with
DecryptKeyGiven ==
    IF args.mode = "key" THEN (IF RightKeyLength THEN args.key ELSE <<>>)
    ELSE IF Len(args.secret) = KeySize /\ HasPublicKey(args.contract) /\ ~args.hkdf
         THEN deriveSymmetricKey(getPublicKey(args.secret), LE32(contractSk))
         ELSE <<>>

\* C23: in AAD mode sender every decrypt and listen implementation opens
\* an event with the 20 bytes of the caller the contract bound (the sender
\* field of the event), so an event sealed under the session key with that
\* AAD is decrypted also when the caller was not the transaction's origin.
C23_SenderNotOrigin ==
    /\ (EventChosen /\ args.aadmode = "sender"
            /\ SenderSealed(matches[1].parsed, DecryptKeyGiven)) =>
          /\ pc = "done"
          /\ Len(Plaintexts) = 1
          /\ Plaintexts[1].text = TextDecoderDecode(matches[1].parsed.ct.p)
    /\ (args.action = "listen" /\ args.aadmode = "sender" /\ ~args.hkdf) =>
          \A i \in 1..Len(handlers) :
              ( /\ Settled(i)
                /\ handlers[i].err # TransportError
                /\ SenderSealed(delivered[i], sessionKey) )
              => ( /\ handlers[i].err = "none"
                   /\ handlers[i].aad = delivered[i].ct.a
                   /\ handlers[i].text = TextDecoderDecode(delivered[i].ct.p) )

\* what the implementations do: the enc task's decrypt and the earlier enc
\* task take the sender field; the decrypt and listen tasks take tx.from
\* and open the event only when the origin itself was the caller; the
\* latest enc listener opens none
C23_AsImplemented ==
    /\ (EventChosen /\ args.aadmode = "sender"
            /\ SenderSealed(matches[1].parsed, DecryptKeyGiven)) =>
          IF args.impl = "task"
          THEN (pc = "done") <=>
                   (matches[1].parsed.ct.a = AddressBytes(chain[args.tx].from))
          ELSE pc = "done" /\ Len(Plaintexts) = 1
    /\ (args.action = "listen" /\ args.aadmode = "sender" /\ ~args.hkdf) =>
          \A i \in 1..Len(handlers) :
              ( /\ Settled(i)
                /\ handlers[i].err # TransportError
                /\ SenderSealed(delivered[i], sessionKey) )
              => CASE args.impl = "enc" -> handlers[i].err # "none"
                   [] args.impl = "enc1" ->
                        handlers[i].err = "none" /\ handlers[i].aad = delivered[i].ct.a
                   [] OTHER ->
                        (handlers[i].err = "none") <=>
                            (delivered[i].ct.a = AddressBytes("Signer"))

\* the decrypt task met an event that an intermediary had emitted
C23_RelayedReached ==
    /\ EventChosen
    /\ args.aadmode = "sender"
    /\ args.impl = "task"
    /\ SenderSealed(matches[1].parsed, DecryptKeyGiven)
    /\ matches[1].parsed.ct.a = AddressBytes("Relayer")
    /\ err = AuthFailure

\* the X25519 shared secret of the session, and its labeled derivation
SharedSecret == scalarMult(args.secret, contractPublicKey)
LabeledKey == deriveSapphireSymmetricKeyFromShared(SharedSecret)

\* an ecdh listen has its session key
EcdhListenKeyed ==
    /\ args.action = "listen"
    /\ args.mode = "ecdh"
    /\ sessionKey # <<>>

\* C24: in every ecdh listen and decrypt implementation the AEAD key is
\* the labeled key derivation of the X25519 shared secret, the key the
\* contract derives on-chain, and never the raw shared secret.
C24_LabeledKdfEverywhere ==
    /\ EcdhListenKeyed =>
          /\ sessionKey = LabeledKey
          /\ sessionKey = deriveSymmetricKey(getPublicKey(args.secret), LE32(contractSk))
          /\ sessionKey # SharedSecret
          /\ \A i \in 1..Len(handlers) :
                handlers[i].key # SharedSecret
                /\ (~args.hkdf => handlers[i].key = LabeledKey)
    /\ (EventChosen /\ args.mode = "ecdh" /\ sessionKey # <<>>) =>
          /\ sessionKey # SharedSecret
          /\ ~args.hkdf => sessionKey = LabeledKey

\* the same of all implementations but the first listen-ecdh task, whose
\* key is the raw shared secret
C24_ExceptFirstListenEcdh ==
    /\ EcdhListenKeyed =>
          IF args.impl = "task0"
          THEN sessionKey = SharedSecret
          ELSE /\ sessionKey = LabeledKey
               /\ \A i \in 1..Len(handlers) :
                     handlers[i].key # SharedSecret
                     /\ (~args.hkdf => handlers[i].key = LabeledKey)
    /\ (EventChosen /\ args.mode = "ecdh" /\ sessionKey # <<>>) =>
          /\ sessionKey # SharedSecret
          /\ ~args.hkdf => sessionKey = LabeledKey

\* the positions of the requests of one kind among the session's requests
CallsOf(op) == {i \in 1..Len(calls) : calls[i].op = op}

EmitFunctions ==
    {"emitEncrypted", "emitEncryptedWithAad", "emitEncryptedECDH", "emitEncryptedECDHWithAad"}

\* the emit and listen part of C25: the contract call of emit is made with
\* 32 bytes of resolved key material, and a subscription is open only under
\* a session key that the AEAD accepted
C25_EmitAndListen ==
    /\ (args.action = "emit") =>
          \A i \in 1..Len(calls) :
              calls[i].op \in EmitFunctions =>
                  /\ Len(material) = KeySize
                  /\ calls[i].params[1] = EmitKeyArg(args.mode, material)
    /\ (args.action = "listen" /\ (listeners \/ delivered # <<>>)) =>
          /\ newAEAD(sessionKey) = "none"
          /\ args.mode = "key" => sessionKey = args.key
          /\ args.mode = "ecdh" => CallsOf("contractPublicKey") # {}

\* C25: the key material of the session is resolved and checked before the
\* action's own remote work: before the contract call of emit, before the
\* subscription of listen, and before the receipt fetch and the decoding of
\* the logs in decrypt (a key or secret of a wrong length stops decrypt
\* before the receipt is fetched, and in ecdh mode the contract's public
\* key is fetched before the receipt).
C25_KeyResolvedFirst ==
    /\ C25_EmitAndListen
    /\ (args.action = "decrypt") =>
          /\ (WrongKeyLength \/ WrongSecretLength) =>
                (CallsOf("getTransactionReceipt") = {} /\ matches = <<>>)
          /\ (args.mode = "ecdh" /\ CallsOf("getTransactionReceipt") # {}) =>
                \E i \in CallsOf("contractPublicKey") :
                    \A j \in CallsOf("getTransactionReceipt") : i < j

\* what decrypt does: the receipt is fetched first, and the key material
\* is looked at only once an event is chosen
C25_DecryptFetchesFirst ==
    (args.action = "decrypt") =>
        /\ sessionKey # <<>> => EventChosen
        /\ \A i \in CallsOf("contractPublicKey") :
              \E j \in CallsOf("getTransactionReceipt") : j < i
        /\ (DecryptEnded /\ err \in KeyLengthErrors \cup {"bad n size"}) =>
              (CallsOf("getTransactionReceipt") # {} /\ EventChosen)

\* the positions of the output lines with a tag
LinesOf(tag) == {k \in 1..Len(out) : out[k].tag = tag}

C26_FailedCall ==
    /\ args.action = "emit"
    /\ pc = "failed"
    /\ material # <<>>
    /\ out = <<>>

\* C27: an ecdh listen fetches the contract's public key exactly once,
\* as the first request of the session and before the subscription is open,
\* and the session key derived from it is the one key of every event
\* handled afterwards: no delivery, handler failure or per-message
\* derivation fetches the public key again or changes the session key.
C27_OneKeyPerSession ==
    (args.action = "listen" /\ args.mode = "ecdh") =>
        /\ Cardinality(CallsOf("contractPublicKey")) <= 1
        /\ CallsOf("contractPublicKey") \subseteq {1}
        /\ (listeners \/ delivered # <<>>) =>
              /\ CallsOf("contractPublicKey") = {1}
              /\ sessionKey # <<>>
              /\ sessionKey = ListenSetupOf(args).key
              /\ \A i \in 1..Len(handlers) :
                    \/ handlers[i].key = sessionKey
                    \/ /\ args.hkdf
                       /\ handlers[i].key =
                             hkdfSync(sessionKey, Slice(delivered[i].nonce, 0, NonceSize))

\* two events handled under the one key, the first of them failed
C27_Witness ==
    /\ args.action = "listen"
    /\ args.mode = "ecdh"
    /\ listeners
    /\ Len(handlers) = 2
    /\ Failed(1)
    /\ Succeeded(2)
    /\ handlers[1].key = sessionKey
    /\ handlers[2].key = sessionKey
    /\ CallsOf("contractPublicKey") = {1}

ValidationErrors ==
    {"action must be 'emit', 'listen', or 'decrypt'",
     "mode must be 'key' or 'ecdh'",
     "aadmode must be 'none', 'sender', or 'context'",
     "--contract is required for 'emit' and 'listen'",
     "--contract is required for decrypt in ecdh mode"}

\* the invocation names an unknown action, mode or AAD mode, or lacks the
\* contract address that emit, listen and ecdh decrypt need
InvalidArguments ==
    /\ args.impl \in {"enc", "enc1"}
    /\ \/ args.action \notin {"emit", "listen", "decrypt"}
       \/ args.mode \notin {"key", "ecdh"}
       \/ args.aadmode \notin {"none", "sender", "context"}
       \/ args.action \in {"emit", "listen"} /\ args.contract = NoAddr
       \/ args.action = "decrypt" /\ args.mode = "ecdh" /\ args.contract = NoAddr

\* C28: an invocation with an unknown action, mode or AAD mode, or without
\* the contract address it needs, is rejected with the error of the failing
\* check before any remote call, before any key material is generated or
\* derived and before any subscription is opened.
C28_ValidationFirst ==
    InvalidArguments =>
        /\ calls = <<>>
        /\ material = <<>>
        /\ sessionKey = <<>>
        /\ ~listeners
        /\ delivered = <<>>
        /\ handlers = <<>>
        /\ receipt = <<>>
        /\ pc \in {"validate", "listen_setup", "dec_fetch", "failed"}
        /\ pc = "failed" =>
              /\ err = ValidateArgs(args)
              /\ err \in ValidationErrors
              /\ exitCode = 1

\* an invocation with an unknown mode and no contract address was rejected
\* for its mode
C28_Witness ==
    /\ InvalidArguments
    /\ args.action = "emit"
    /\ args.mode = "rsa"
    /\ args.contract = NoAddr
    /\ pc = "failed"
    /\ err = "mode must be 'key' or 'ecdh'"

\* a listen without a contract address was rejected in its setup
C28_ListenRejected ==
    /\ InvalidArguments
    /\ args.action = "listen"
    /\ pc = "failed"
    /\ err = "--contract is required for 'emit' and 'listen'"

\* the emit functions that bind the caller as AAD
WithAadFunctions == {"emitEncryptedWithAad", "emitEncryptedECDHWithAad"}

\* the first argument an emit function can be called with
EmitKeyArgs(fn) ==
    IF fn \in EcdhEmitFunctions THEN {getPublicKey(sec) : sec \in Secrets}
    ELSE PresharedKeys

\* the key an emit function seals under
SealingKey(fn, keyArg) ==
    IF fn \in EcdhEmitFunctions THEN deriveSymmetricKey(keyArg, LE32(contractSk))
    ELSE keyArg

\* every call of an emit function, by any caller, emits the nonce it
\* sealed under and its caller, and seals with the caller's 20 bytes as AAD
\* in the WithAad variants and with no AAD otherwise.  The functions read
\* no state but the contract's secret key, so each deployed contract is
\* examined once, before any operation starts
EmitsWhatItSealed ==
    pc = "idle" =>
    \A fn \in EmitFunctions, c \in Callers, nonce \in Nonces :
        \A keyArg \in EmitKeyArgs(fn) :
            EmittedLog(fn, c, keyArg, toUtf8Bytes(EnvMessage), nonce)
              = [address |-> Checksum(IF fn \in EcdhEmitFunctions
                                      THEN "EncryptedEventsECDH"
                                      ELSE "EncryptedEvents"),
                 sig |-> SigSender,
                 sender |-> c,
                 nonce |-> nonce,
                 ct |-> [k |-> SealingKey(fn, keyArg),
                         n |-> Slice(nonce, 0, NonceSize),
                         a |-> IF fn \in WithAadFunctions THEN AddressBytes(c)
                               ELSE <<>>,
                         p |-> toUtf8Bytes(EnvMessage)]]

\* the log of the transaction an emit has sent is the one its call emits,
\* and the contract's public key is the one of its secret key
EmittedAsSealed ==
    /\ contractPk = getPublicKey(LE32(contractSk))
    /\ (args.action = "emit" /\ pc \in {"emit_wait", "done"}) =>
          LET l == chain[Len(chain)].logs[1]
          IN  /\ l.sender = chain[Len(chain)].from
              /\ l.ct.n = Slice(l.nonce, 0, NonceSize)
              /\ l.ct.k = SealingKey(calls[1].op, calls[1].params[1])
              /\ l.ct.a = (IF calls[1].op \in WithAadFunctions
                           THEN AddressBytes(l.sender) ELSE <<>>)

\* C29: every call of an emit function of EncryptedEvents and of
\* EncryptedEventsECDH emits the nonce that was passed to the encryption
\* and the caller as sender, the WithAad variants seal with exactly the 20
\* bytes of that sender as AAD, and the keypair of the ECDH contract, set
\* at construction, is changed by no step.
C29_ContractsEmitWhatTheySealed ==
    /\ [](EmitsWhatItSealed /\ EmittedAsSealed)
    /\ [][contractSk' = contractSk /\ contractPk' = contractPk]_vars

\* an ecdh emit with sender-bound AAD has been mined
C29_Witness ==
    /\ args.action = "emit"
    /\ args.mode = "ecdh"
    /\ args.aadmode = "sender"
    /\ pc = "done"
    /\ calls[1].op = "emitEncryptedECDHWithAad"
    /\ chain[1].logs[1].ct.a = AddressBytes("Signer")
    /\ chain[1].logs[1].ct.k = deriveSymmetricKey(calls[1].params[1], LE32(contractSk))

\* the positions of the receipt that hold an Encrypted log the scan accepts
EligibleAt == {i \in 1..Len(receipt) : Eligible(receipt[i])}

\* the first of them in receipt order
FirstEligible == receipt[CHOOSE i \in EligibleAt : \A j \in EligibleAt : i <= j]

\* two or more Encrypted logs of the targeted contract
SeveralOfTarget == TargetGiven /\ Cardinality(EligibleAt) >= 2

\* two or more Encrypted logs, all of one address, and no target
SeveralOfOneAddress ==
    /\ args.contract = NoAddr
    /\ Cardinality(EligibleAt) >= 2
    /\ \A i \in EligibleAt, j \in EligibleAt :
           receipt[i].address = receipt[j].address

\* C30: with a target address and two or more Encrypted logs of that
\* address in the receipt, decrypt goes on with the first of them in receipt
\* order, raises neither the ambiguity nor the not-found error, and the
\* plaintext it prints is that of the first; with no target and two or more
\* Encrypted logs of one and the same address, the decrypt of the enc task
\* fails with the ambiguity error and prints no plaintext.
C30_SeveralMatches ==
    Scanned =>
        /\ SeveralOfTarget =>
              /\ matches # <<>>
              /\ matches[1].parsed = FirstEligible
              /\ err \notin NotFoundErrors \cup {"Ambiguous: multiple Encrypted events"}
              /\ pc = "done" =>
                    /\ Len(Plaintexts) = 1
                    /\ Plaintexts[1].text = TextDecoderDecode(FirstEligible.ct.p)
        /\ (SeveralOfOneAddress /\ args.impl = "enc") =>
              /\ pc = "failed"
              /\ err = "Ambiguous: multiple Encrypted events"
              /\ Len(matches) = Cardinality(EligibleAt)
              /\ Plaintexts = <<>>
              /\ sessionKey = <<>>

\* the enc task has decrypted the first of two different events of the
\* targeted contract, the second being another message
C30_Witness ==
    /\ Scanned
    /\ args.impl = "enc"
    /\ SeveralOfTarget
    /\ receipt[1] # receipt[2]
    /\ pc = "done"
    /\ Plaintexts[1].text = TextDecoderDecode(receipt[1].ct.p)
    /\ Plaintexts[1].text # TextDecoderDecode(receipt[2].ct.p)

\* the enc task has refused two different events of one contract for want
\* of a target
C30_Refused ==
    /\ Scanned
    /\ args.impl = "enc"
    /\ SeveralOfOneAddress
    /\ receipt[1] # receipt[2]
    /\ err = "Ambiguous: multiple Encrypted events"

====
